---- MODULE Spec2Model ----
(***************************************************************************)
(* Room / session coordination of syncy.                                   *)
(*                                                                         *)
(* Three handler modules keep an in-memory registry of rooms:              *)
(*   "server"  server/index.ts         (socket.io coordination server)     *)
(*   "vercel"  api socket handler      (socket.io, host-only video events) *)
(*   "rest"    api rooms handler       (request/response, host-only)       *)
(* A behaviour models one running module; `deployment` says which one.     *)
(*                                                                         *)
(* On the clients ("client"), the host's VideoChunker slices the file it   *)
(* streams into chunks, and a P2PStreamingManager on the host and one on   *)
(* a participant move the chunks over WebRTC data channels.                *)
(***************************************************************************)
EXTENDS Integers, Sequences, FiniteSets, TLC

VARIABLES
    deployment,   \* which handler module is running
    status,       \* socket id -> "open" | "closed"   (transport connections)
    rooms,        \* Map roomId -> Room            (DOMAIN rooms = keys present)
    userSockets,  \* Map socketId -> userId        (DOMAIN userSockets = keys present)
    ioRooms,      \* socket id -> set of socket.io rooms the socket has joined
    now,          \* wall clock, milliseconds
    req,          \* the request handled by the last step
    out,          \* messages emitted by the last step, in emission order
    restRooms,    \* rest handler: Map roomId -> Room (with videoState)
    userSessions, \* rest handler: Map userId -> roomId
    wire,         \* the transport: control events delivered to each traced connection
    chunker,      \* the host's VideoChunker: file, chunkSize, chunks, metadata
    hostMgr,      \* the host's P2PStreamingManager and its WebRTCDataChannelManager
    peerMgr,      \* the P2PStreamingManager of participant p1, and its data channel manager
    channel,      \* messages in flight from the host to p1, each on its connection
    trace,        \* the call handled by the last step, what it emitted, session totals
    store         \* the app store of the client on connection 1: its view of the room

vars == <<deployment, status, rooms, userSockets, ioRooms, now, req, out,
          restRooms, userSessions, wire, chunker, hostMgr, peerMgr, channel, trace,
          store>>

\* the two streaming managers and what is between them
managerVars == <<hostMgr, peerMgr, channel, trace>>
\* state of the clients: the peer-to-peer transfer and the app store
transferVars == <<chunker, managerVars, store>>
\* state of the coordination servers and of the transport, and the app
\* store, which no step of a transfer touches
serverVars == <<deployment, status, rooms, userSockets, ioRooms, now, req, out,
                restRooms, userSessions, wire, store>>

socketVars == <<rooms, userSockets, ioRooms>>
restVars == <<restRooms, userSessions>>

----------------------------------------------------------------------------
(* Bounds of the model *)

MaxSockets == 3        \* connections the environment opens and drives
MaxShortTicks == 1     \* millisecond ticks on top of one long wait
MaxEvents == 2         \* control events submitted while the transport is traced
MaxBlocks == 4         \* file sizes go up to this many 32 KiB blocks (plus one byte)
MaxConnections == 2    \* peer connections the host creates
MaxRequests == 2       \* chunk requests that reach the host
MaxHostings == 1       \* files the host starts to stream
MaxDeliveries == 4     \* messages a remote peer hands the participant directly
MaxListed == 3         \* entries in the client's list of room users while others join

RoomIds == {"r1", "r2"}
Sockets == 1..MaxSockets

(* Program constants *)
MaxRoomUsers == 10
InactiveThreshold == 30 * 60 * 1000
EventTypes == {"play", "pause", "seek", "volume", "speed"}

MaxTime == InactiveThreshold + MaxShortTicks
TickSteps == {1, InactiveThreshold}

\* '' / undefined
NoId == 0

\* The display name a connection's client joins with.  Connections 1 and 3
\* belong to the same client: 3 is what 1 becomes after a transport reconnect.
NameOf(s) == IF s % 2 = 1 THEN "alice" ELSE "bob"

\* Idle members already sitting in room r1 when a nearly-full room is studied.
IdleSockets == (MaxSockets + 1)..(MaxSockets + MaxRoomUsers - 1)

----------------------------------------------------------------------------
(* Helpers *)

RECURSIVE SeqOfSet(_)
SeqOfSet(S) ==
    IF S = {} THEN <<>>
    ELSE LET m == CHOOSE x \in S : \A y \in S : x <= y
         IN <<m>> \o SeqOfSet(S \ {m})

Range(f) == {f[i] : i \in DOMAIN f}

\* Map.set(k, v)
MapSet(m, k, v) == [x \in DOMAIN m \cup {k} |-> IF x = k THEN v ELSE m[x]]
\* Map.delete(k)
MapDelete(m, k) == [x \in DOMAIN m \ {k} |-> m[x]]
EmptyMap == <<>>

\* room.users is a Map keyed by user id; iteration is in insertion order.
UserIdsOf(room) == {room.users[i].id : i \in DOMAIN room.users}
UsersHas(room, uid) == uid \in UserIdsOf(room)
UsersGet(room, uid) ==
    room.users[CHOOSE i \in DOMAIN room.users : room.users[i].id = uid]
UsersDelete(users, uid) == SelectSeq(users, LAMBDA u : u.id # uid)

\* uuidv4(): an id no live object holds.  The smallest free id is taken.
\* Ids some object still holds once socket s has been given a new one.
UsedIds(s) ==
    UNION {UserIdsOf(rooms[r]) : r \in DOMAIN rooms}
      \cup {userSockets[x] : x \in DOMAIN userSockets \ {s}}
      \cup UNION {UserIdsOf(restRooms[r]) : r \in DOMAIN restRooms}
      \cup DOMAIN userSessions
\* one id per connection of the run
IdPool == 1..Cardinality(DOMAIN status)
HasFreshId(s) == IdPool \ UsedIds(s) # {}
FreshId(s) == CHOOSE i \in IdPool \ UsedIds(s) : \A j \in IdPool \ UsedIds(s) : i <= j

----------------------------------------------------------------------------
(* Messages *)

Msg(ev, to, uid, name, host, text) ==
    [ev |-> ev, to |-> to, userId |-> uid, userName |-> name,
     isHost |-> host, text |-> text, code |-> 0, from |-> NoId]

ErrorMsg(s, text) == Msg("error", s, NoId, "", FALSE, text)

\* Connected sockets in the socket.io room named r.
InIoRoom(r) == {s \in DOMAIN status : status[s] = "open" /\ r \in ioRooms[s]}

\* socket.to(r).emit(...): everyone in the room except the sender
SocketTo(s, r) == InIoRoom(r) \ {s}
\* io.to(r).emit(...): everyone in the room
IoTo(r) == InIoRoom(r)

Emit(targets, ev, uid, name, host, text) ==
    LET ts == SeqOfSet(targets)
    IN [i \in 1..Len(ts) |-> Msg(ev, ts[i], uid, name, host, text)]

\* socket.id and uuidv4() as the strings socket.io addresses rooms by
SocketIdOf(s) == "socket:" \o ToString(s)
UserIdOf(u) == IF u = NoId THEN "" ELSE "user:" \o ToString(u)

\* The socket.io rooms a socket is in: the one named by its own id and the
\* ones it joined.
SocketRooms(s) == {SocketIdOf(s)} \cup ioRooms[s]

\* socket.to(name).emit(...) for any room name: the connected sockets in
\* that room except the sender
SocketToName(s, name) ==
    {t \in DOMAIN status : status[t] = "open" /\ t # s /\ name \in SocketRooms(t)}

\* a forwarded payload stamped with the sender's socket.id
EmitFrom(targets, ev, s, name, text) ==
    LET ts == SeqOfSet(targets)
    IN [i \in 1..Len(ts) |->
          [Msg(ev, ts[i], NoId, name, FALSE, text) EXCEPT !.from = s]]

Req(op, s, r) == [op |-> op, sock |-> s, room |-> r, target |-> "", userName |-> ""]
\* a request that names a target (participantId)
ReqTo(op, s, r, t) == [Req(op, s, r) EXCEPT !.target = t]
\* a join-room request
ReqJoin(s, r, n) == [Req("join-room", s, r) EXCEPT !.userName = n]
\* no request was handled by the last step
NoReq == Req("none", NoId, "")

----------------------------------------------------------------------------
(* The transport.  socket.io delivers the messages emitted to a connection *)
(* in the order of the emit calls.  wire.recv[t] is what connection t has  *)
(* been sent so far, for the connections whose transport is traced;        *)
(* wire.sent counts the control events accepted so far and numbers them.   *)

NoWire == [sent |-> 0, recv |-> <<>>]
Traced == DOMAIN wire.recv # {}

\* a transport that hands over the newest message first
WirePrepend(q, m) == <<m>> \o q

\* an in-order channel
WireAppend(q, m) == Append(q, m)

\* socket.to(...).emit('video-event-received', ...) as seen on the wire
Transport(targets, userId) ==
    IF ~Traced THEN wire
    ELSE [sent |-> wire.sent + 1,
          recv |-> [t \in DOMAIN wire.recv |->
                      IF t \in targets
                      THEN WireAppend(wire.recv[t], [userId |-> userId, n |-> wire.sent + 1])
                      ELSE wire.recv[t]]]

----------------------------------------------------------------------------
(* The clock advances *)
Tick(d) ==
    /\ now + d <= MaxTime
    /\ d < InactiveThreshold => (now % InactiveThreshold) + d <= MaxShortTicks
    /\ now' = now + d
    /\ req' = NoReq
    /\ out' = <<>>
    /\ UNCHANGED <<transferVars, wire, deployment, status, rooms, userSockets, ioRooms, restRooms, userSessions>>

----------------------------------------------------------------------------
(* server/index.ts *)

NewRoom(roomId) ==
    [id |-> roomId, host |-> NoId, users |-> <<>>, lastActivity |-> now]

NewUser(uid, s, userName, room) ==
    [id |-> uid, socketId |-> s, name |-> userName,
     isHost |-> (Len(room.users) = 0), joinedAt |-> now]

\* an operation that leaves the timestamp alone
TouchNot(room) == room

\* room.lastActivity = new Date()
Touch(room) == [room EXCEPT !.lastActivity = now]

\* a capacity check that is off by one
RoomIsFullOffByOne(room) == Len(room.users) > MaxRoomUsers

RoomIsFull(room) == Len(room.users) >= MaxRoomUsers

\* join-room, reconnection branch
JoinReconnect(s, roomId) ==
    LET room == rooms[roomId]
        userId == userSockets[s]
        existingUser == UsersGet(room, userId)
        users2 == [i \in DOMAIN room.users |->
                     IF room.users[i].id = userId
                     THEN [room.users[i] EXCEPT !.socketId = s]
                     ELSE room.users[i]]
    IN /\ rooms' = [rooms EXCEPT ![roomId] = Touch([room EXCEPT !.users = users2])]
       /\ userSockets' = MapSet(userSockets, s, userId)
       /\ ioRooms' = [ioRooms EXCEPT ![s] = @ \cup {roomId}]
       /\ out' = <<Msg("room-joined", s, userId, existingUser.name,
                       existingUser.isHost, roomId)>>
                 \o Emit(SocketTo(s, roomId), "user-reconnected", existingUser.id,
                         existingUser.name, existingUser.isHost, roomId)

\* join-room, new member
JoinNew(s, roomId, userName) ==
    LET room == IF roomId \in DOMAIN rooms THEN rooms[roomId] ELSE NewRoom(roomId)
    IN IF RoomIsFull(room)
       THEN /\ rooms' = MapSet(rooms, roomId, room)
            /\ out' = <<ErrorMsg(s, "Room is full")>>
            /\ UNCHANGED <<userSockets, ioRooms>>
       ELSE LET userId == FreshId(s)
                user == NewUser(userId, s, userName, room)
                room2 == Touch([room EXCEPT
                                  !.host = IF Len(room.users) = 0 THEN userId ELSE @,
                                  !.users = Append(@, user)])
            IN /\ rooms' = MapSet(rooms, roomId, room2)
               /\ userSockets' = MapSet(userSockets, s, userId)
               /\ ioRooms' = [ioRooms EXCEPT ![s] = @ \cup {roomId}]
               /\ out' = <<Msg("room-joined", s, userId, userName, user.isHost, roomId)>>
                         \o Emit(SocketTo(s, roomId), "user-joined", user.id,
                                 user.name, user.isHost, roomId)

IsReconnection(s, roomId) ==
    /\ roomId \in DOMAIN rooms
    /\ s \in DOMAIN userSockets
    /\ UsersHas(rooms[roomId], userSockets[s])

\* a validation that lets everything through
IsMissingNever(x) == FALSE

\* !roomId, !userName: the field is absent or the empty string
IsMissing(x) == x = ""

JoinBody(s, roomId, userName) ==
    /\ s \in DOMAIN status
    /\ status[s] = "open"
    /\ (~IsMissing(roomId) /\ ~IsMissing(userName) /\ ~IsReconnection(s, roomId))
          => HasFreshId(s)
    /\ req' = ReqJoin(s, roomId, userName)
    /\ IF IsMissing(roomId) \/ IsMissing(userName)
       THEN /\ out' = <<ErrorMsg(s, "Room ID and user name are required")>>
            /\ UNCHANGED socketVars
       ELSE IF IsReconnection(s, roomId)
            THEN JoinReconnect(s, roomId)
            ELSE JoinNew(s, roomId, userName)
    /\ UNCHANGED <<chunker, managerVars, wire, deployment, status, now, restRooms, userSessions>>

JoinRoom(s, roomId, userName) ==
    /\ deployment = "server"
    /\ JoinBody(s, roomId, userName)
    /\ UNCHANGED store

\* disconnect: the room that holds the member bound to the socket, if any
RoomOfUser(userId) ==
    IF \E r \in DOMAIN rooms : UsersHas(rooms[r], userId)
    THEN CHOOSE r \in DOMAIN rooms : UsersHas(rooms[r], userId)
    ELSE ""

\* a transfer that picks the latest joiner
NewHostIndexLast(users) == Len(users)

\* disconnect: host transfer picks Array.from(room.users.values())[0]
NewHostIndex(users) == 1

\* a transfer that forgets to set the flag
PromoteHostForgetsFlag(users) == users

PromoteHost(users) ==
    [i \in DOMAIN users |->
        IF i = NewHostIndex(users) THEN [users[i] EXCEPT !.isHost = TRUE] ELSE users[i]]

LeaveRoom(s, roomId, userId) ==
    LET room == rooms[roomId]
        user == UsersGet(room, userId)
        rest == UsersDelete(room.users, userId)
        transfer == user.isHost /\ Len(rest) > 0
        users2 == IF transfer THEN PromoteHost(rest) ELSE rest
        newHost == users2[NewHostIndex(users2)]
    IN /\ userSockets' = MapDelete(userSockets, s)
       /\ out' = (IF transfer
                  THEN Emit(IoTo(roomId) \ {s}, "host-changed", newHost.id,
                            newHost.name, TRUE, roomId)
                  ELSE <<>>)
                 \o Emit(SocketTo(s, roomId), "user-left", userId, user.name,
                         user.isHost, roomId)
       /\ rooms' = IF Len(users2) = 0
                   THEN MapDelete(rooms, roomId)
                   ELSE [rooms EXCEPT ![roomId] = Touch([room EXCEPT !.users = users2])]

\* The transport reports the connection closed; the socket has left its
\* socket.io rooms when the handler runs.
DisconnectBody(s) ==
    /\ s \in DOMAIN status
    /\ status[s] = "open"
    /\ status' = [status EXCEPT ![s] = "closed"]
    /\ ioRooms' = [ioRooms EXCEPT ![s] = {}]
    /\ req' = Req("disconnect", s, "")
    /\ IF s \notin DOMAIN userSockets \/ RoomOfUser(userSockets[s]) = ""
       THEN /\ out' = <<>>
            /\ UNCHANGED <<rooms, userSockets>>
       ELSE LeaveRoom(s, RoomOfUser(userSockets[s]), userSockets[s])
    /\ UNCHANGED <<chunker, managerVars, wire, deployment, now, restRooms, userSessions>>

Disconnect(s) ==
    /\ deployment = "server"
    /\ DisconnectBody(s)
    /\ UNCHANGED store

\* a cleanup that already removes a room at the threshold
IsInactiveAtThreshold(room) == now - room.lastActivity >= InactiveThreshold

\* setInterval callback: cleanup of inactive rooms
IsInactive(room) == now - room.lastActivity > InactiveThreshold

Sweep ==
    /\ deployment = "server"
    /\ rooms' = [r \in {x \in DOMAIN rooms : ~IsInactive(rooms[x])} |-> rooms[r]]
    /\ req' = Req("sweep", NoId, "")
    /\ out' = <<>>
    /\ UNCHANGED <<transferVars, wire, deployment, status, userSockets, ioRooms, now, restRooms, userSessions>>

\* GET /api/room/:roomId
RoomLookup(roomId) ==
    IF roomId \notin DOMAIN rooms
    THEN [code |-> 404, userCount |-> 0]
    ELSE [code |-> 200, userCount |-> Len(rooms[roomId].users)]

\* video-event
VideoEvent(s, roomId, type) ==
    /\ deployment = "server"
    /\ s \in DOMAIN status
    /\ status[s] = "open"
    /\ Traced => wire.sent < MaxEvents
    /\ req' = Req("video-event", s, roomId)
    /\ IF roomId \notin DOMAIN rooms
       THEN /\ out' = <<ErrorMsg(s, "Room not found")>>
            /\ UNCHANGED <<rooms, wire>>
       ELSE IF s \notin DOMAIN userSockets
       THEN /\ out' = <<ErrorMsg(s, "User session not found")>>
            /\ UNCHANGED <<rooms, wire>>
       ELSE IF ~UsersHas(rooms[roomId], userSockets[s])
       THEN /\ out' = <<ErrorMsg(s, "User not in room")>>
            /\ UNCHANGED <<rooms, wire>>
       ELSE /\ rooms' = [rooms EXCEPT ![roomId] = Touch(@)]
            /\ out' = Emit(SocketTo(s, roomId), "video-event-received",
                           userSockets[s], "", FALSE, type)
            /\ wire' = Transport(SocketTo(s, roomId), userSockets[s])
    /\ UNCHANGED <<transferVars, deployment, status, userSockets, ioRooms, now, restRooms, userSessions>>

\* texts the clients send, and message.trim() on them
ChatTexts == {"hi", " hi "}
Trim(message) == IF message = " hi " THEN "hi" ELSE message

\* chat-message
ChatMessage(s, roomId, message) ==
    /\ deployment = "server"
    /\ s \in DOMAIN status
    /\ status[s] = "open"
    /\ req' = Req("chat-message", s, roomId)
    /\ IF roomId \notin DOMAIN rooms
       THEN /\ out' = <<ErrorMsg(s, "Room not found")>>
            /\ UNCHANGED rooms
       ELSE IF s \notin DOMAIN userSockets
       THEN /\ out' = <<ErrorMsg(s, "User session not found")>>
            /\ UNCHANGED rooms
       ELSE IF ~UsersHas(rooms[roomId], userSockets[s])
       THEN /\ out' = <<ErrorMsg(s, "User not in room")>>
            /\ UNCHANGED rooms
       ELSE LET user == UsersGet(rooms[roomId], userSockets[s])
            IN /\ rooms' = [rooms EXCEPT ![roomId] = Touch(@)]
               /\ out' = Emit(IoTo(roomId), "chat-message-received",
                              userSockets[s], user.name, FALSE, Trim(message))
    /\ UNCHANGED <<transferVars, wire, deployment, status, userSockets, ioRooms, now, restRooms, userSessions>>

\* webrtc-offer, webrtc-answer, ice-candidate
SignalKinds == {"webrtc-offer", "webrtc-answer", "ice-candidate"}

Signal(s, roomId, participantId, kind) ==
    /\ deployment = "server"
    /\ s \in DOMAIN status
    /\ status[s] = "open"
    /\ req' = ReqTo(kind, s, roomId, participantId)
    /\ out' = IF roomId \notin DOMAIN rooms
              THEN <<ErrorMsg(s, "Room not found")>>
              ELSE EmitFrom(SocketToName(s, participantId), kind, s, "", roomId)
    /\ UNCHANGED <<transferVars, wire, deployment, status, rooms, userSockets, ioRooms, now,
                   restRooms, userSessions>>

\* join-stream-request
JoinStreamRequest(s, roomId) ==
    /\ deployment = "server"
    /\ s \in DOMAIN status
    /\ status[s] = "open"
    /\ req' = Req("join-stream-request", s, roomId)
    /\ out' = IF roomId \notin DOMAIN rooms
              THEN <<ErrorMsg(s, "Room not found")>>
              ELSE IF s \notin DOMAIN userSockets
              THEN <<ErrorMsg(s, "User session not found")>>
              ELSE IF ~UsersHas(rooms[roomId], userSockets[s])
              THEN <<ErrorMsg(s, "User not in room")>>
              ELSE EmitFrom(SocketToName(s, UserIdOf(rooms[roomId].host)),
                            "join-stream-request", s,
                            UsersGet(rooms[roomId], userSockets[s]).name, roomId)
    /\ UNCHANGED <<transferVars, wire, deployment, status, rooms, userSockets, ioRooms, now,
                   restRooms, userSessions>>

\* streaming-started
StreamingStarted(s, roomId) ==
    /\ deployment = "server"
    /\ s \in DOMAIN status
    /\ status[s] = "open"
    /\ req' = Req("streaming-started", s, roomId)
    /\ out' = IF roomId \notin DOMAIN rooms
              THEN <<ErrorMsg(s, "Room not found")>>
              ELSE IF s \notin DOMAIN userSockets
              THEN <<ErrorMsg(s, "User session not found")>>
              ELSE IF ~UsersHas(rooms[roomId], userSockets[s])
              THEN <<ErrorMsg(s, "User not in room")>>
              ELSE EmitFrom(SocketTo(s, roomId), "streaming-started", s,
                            UsersGet(rooms[roomId], userSockets[s]).name, roomId)
    /\ UNCHANGED <<transferVars, wire, deployment, status, rooms, userSockets, ioRooms, now,
                   restRooms, userSessions>>

\* streaming-stopped
StreamingStopped(s, roomId) ==
    /\ deployment = "server"
    /\ s \in DOMAIN status
    /\ status[s] = "open"
    /\ req' = Req("streaming-stopped", s, roomId)
    /\ out' = IF roomId \notin DOMAIN rooms
              THEN <<ErrorMsg(s, "Room not found")>>
              ELSE EmitFrom(SocketTo(s, roomId), "streaming-stopped", s, "", roomId)
    /\ UNCHANGED <<transferVars, wire, deployment, status, rooms, userSockets, ioRooms, now,
                   restRooms, userSessions>>

MembershipNext ==
    \/ \E s \in Sockets, r \in RoomIds : JoinRoom(s, r, NameOf(s))
    \/ \E s \in Sockets : Disconnect(s)

EventsNext ==
    \/ \E s \in Sockets, r \in RoomIds : VideoEvent(s, r, "seek")
    \/ \E s \in Sockets, r \in RoomIds, m \in ChatTexts : ChatMessage(s, r, m)

SignalNext ==
    \/ \E s \in Sockets, r \in RoomIds, t \in Sockets, k \in SignalKinds :
          Signal(s, r, SocketIdOf(t), k)
    \/ \E s \in Sockets, r \in RoomIds : JoinStreamRequest(s, r)
    \/ \E s \in Sockets, r \in RoomIds : StreamingStarted(s, r)
    \/ \E s \in Sockets, r \in RoomIds : StreamingStopped(s, r)

ClockNext ==
    \/ \E d \in TickSteps : Tick(d)
    \/ Sweep

----------------------------------------------------------------------------
(* The Vercel socket handler: join-room and disconnect are the server's,   *)
(* video-event is host-only.                                               *)

VercelJoinRoom(s, roomId, userName) ==
    /\ deployment = "vercel"
    /\ JoinBody(s, roomId, userName)
    /\ UNCHANGED store

VercelDisconnect(s) ==
    /\ deployment = "vercel"
    /\ DisconnectBody(s)
    /\ UNCHANGED store

\* a handler without the host check
VercelMayControlAnyone(user) == TRUE

\* the host check of the video-event handler
VercelMayControl(user) == user.isHost

VercelVideoEvent(s, roomId, type) ==
    /\ deployment = "vercel"
    /\ s \in DOMAIN status
    /\ status[s] = "open"
    /\ req' = Req("video-event", s, roomId)
    /\ out' = IF s \notin DOMAIN userSockets
              THEN <<ErrorMsg(s, "User session not found")>>
              ELSE IF roomId \notin DOMAIN rooms
              THEN <<ErrorMsg(s, "Room not found")>>
              ELSE IF ~UsersHas(rooms[roomId], userSockets[s])
              THEN <<ErrorMsg(s, "User not in room")>>
              ELSE IF ~VercelMayControl(UsersGet(rooms[roomId], userSockets[s]))
              THEN <<ErrorMsg(s, "Only host can control video")>>
              ELSE Emit(SocketTo(s, roomId), "video-event-received",
                        userSockets[s], "", FALSE, type)
    /\ UNCHANGED <<transferVars, wire, deployment, status, rooms, userSockets, ioRooms, now,
                   restRooms, userSessions>>

VercelNext ==
    \/ \E s \in Sockets, r \in RoomIds : VercelJoinRoom(s, r, NameOf(s))
    \/ \E s \in Sockets : VercelDisconnect(s)
    \/ \E s \in Sockets, r \in RoomIds : VercelVideoEvent(s, r, "seek")

----------------------------------------------------------------------------
(* The REST rooms handler: the caller names its user id in every request.  *)

Undefined == -1
\* payload of a control request: all optional fields present, or all absent
Payloads == {[time |-> Undefined, volume |-> Undefined, speed |-> Undefined],
             [time |-> 5, volume |-> 0, speed |-> 2]}

getDefaultVideoState ==
    [isPlaying |-> FALSE, currentTime |-> 0, volume |-> 1, playbackRate |-> 1]

Response(code, uid, host, text) ==
    [ev |-> "response", to |-> NoId, userId |-> uid, userName |-> "",
     isHost |-> host, text |-> text, code |-> code, from |-> NoId]

handleJoinRoom(roomId, userName) ==
    /\ deployment = "rest"
    /\ HasFreshId(NoId)
    /\ req' = Req("join", NoId, roomId)
    /\ LET userId == FreshId(NoId)
           room == IF roomId \in DOMAIN restRooms THEN restRooms[roomId]
                   ELSE [id |-> roomId, host |-> userId, users |-> <<>>,
                         lastActivity |-> now, videoState |-> getDefaultVideoState]
       IN IF roomId = "" \/ userName = ""
          THEN /\ out' = <<Response(400, NoId, FALSE, "Room ID and user name are required")>>
               /\ UNCHANGED restVars
          ELSE IF Len(room.users) >= MaxRoomUsers
          THEN /\ restRooms' = MapSet(restRooms, roomId, room)
               /\ out' = <<Response(400, NoId, FALSE, "Room is full")>>
               /\ UNCHANGED userSessions
          ELSE LET user == [id |-> userId, name |-> userName,
                            isHost |-> (Len(room.users) = 0),
                            joinedAt |-> now, lastSeen |-> now]
                   room2 == [room EXCEPT
                               !.host = IF Len(room.users) = 0 THEN userId ELSE @,
                               !.users = Append(@, user),
                               !.lastActivity = now]
               IN /\ restRooms' = MapSet(restRooms, roomId, room2)
                  /\ userSessions' = MapSet(userSessions, userId, roomId)
                  /\ out' = <<Response(200, userId, user.isHost, "success")>>
    /\ UNCHANGED <<transferVars, wire, deployment, status, rooms, userSockets, ioRooms, now>>

handleLeaveRoom(roomId, userId) ==
    /\ deployment = "rest"
    /\ req' = Req("leave", userId, roomId)
    /\ IF roomId = "" \/ userId = NoId
       THEN /\ out' = <<Response(400, NoId, FALSE, "Room ID and user ID are required")>>
            /\ UNCHANGED restVars
       ELSE IF roomId \notin DOMAIN restRooms
       THEN /\ out' = <<Response(404, NoId, FALSE, "Room not found")>>
            /\ UNCHANGED restVars
       ELSE IF ~UsersHas(restRooms[roomId], userId)
       THEN /\ out' = <<Response(404, NoId, FALSE, "User not found in room")>>
            /\ UNCHANGED restVars
       ELSE LET room == restRooms[roomId]
                user == UsersGet(room, userId)
                rest == UsersDelete(room.users, userId)
                transfer == user.isHost /\ Len(rest) > 0
                users2 == IF transfer THEN PromoteHost(rest) ELSE rest
            IN /\ userSessions' = MapDelete(userSessions, userId)
               /\ restRooms' =
                    IF Len(users2) = 0
                    THEN MapDelete(restRooms, roomId)
                    ELSE [restRooms EXCEPT ![roomId] =
                            [room EXCEPT
                               !.users = users2,
                               !.host = IF transfer THEN users2[NewHostIndex(users2)].id ELSE @,
                               !.lastActivity = now]]
               /\ out' = <<Response(200, userId, FALSE, "success")>>
    /\ UNCHANGED <<transferVars, wire, deployment, status, rooms, userSockets, ioRooms, now>>

\* the switch on the event type
ApplyEvent(vs, type, p) ==
    IF type = "play"
    THEN [vs EXCEPT !.isPlaying = TRUE,
                    !.currentTime = IF p.time # Undefined THEN p.time ELSE @]
    ELSE IF type = "pause"
    THEN [vs EXCEPT !.isPlaying = FALSE,
                    !.currentTime = IF p.time # Undefined THEN p.time ELSE @]
    ELSE IF type = "seek"
    THEN [vs EXCEPT !.currentTime = IF p.time # Undefined THEN p.time ELSE @]
    ELSE IF type = "volume"
    THEN [vs EXCEPT !.volume = IF p.volume # Undefined THEN p.volume ELSE @]
    ELSE IF type = "speed"
    THEN [vs EXCEPT !.playbackRate = IF p.speed # Undefined THEN p.speed ELSE @]
    ELSE vs

\* the host check of handleVideoEvent
RestMayControl(user) == user.isHost

handleVideoEvent(roomId, userId, type, p) ==
    /\ deployment = "rest"
    /\ req' = Req("video-event", userId, roomId)
    /\ IF roomId = "" \/ userId = NoId \/ type = ""
       THEN /\ out' = <<Response(400, NoId, FALSE,
                                 "Room ID, user ID, and event type are required")>>
            /\ UNCHANGED restVars
       ELSE IF roomId \notin DOMAIN restRooms
       THEN /\ out' = <<Response(404, NoId, FALSE, "Room not found")>>
            /\ UNCHANGED restVars
       ELSE IF ~UsersHas(restRooms[roomId], userId)
       THEN /\ out' = <<Response(404, NoId, FALSE, "User not found in room")>>
            /\ UNCHANGED restVars
       ELSE IF ~RestMayControl(UsersGet(restRooms[roomId], userId))
       THEN /\ out' = <<Response(403, NoId, FALSE, "Only host can control video")>>
            /\ UNCHANGED restVars
       ELSE LET room == restRooms[roomId]
                users2 == [i \in DOMAIN room.users |->
                             IF room.users[i].id = userId
                             THEN [room.users[i] EXCEPT !.lastSeen = now]
                             ELSE room.users[i]]
            IN /\ restRooms' = [restRooms EXCEPT ![roomId] =
                     [room EXCEPT !.videoState = ApplyEvent(@, type, p),
                                  !.users = users2,
                                  !.lastActivity = now]]
               /\ out' = <<Response(200, userId, TRUE, "success")>>
               /\ UNCHANGED userSessions
    /\ UNCHANGED <<transferVars, wire, deployment, status, rooms, userSockets, ioRooms, now>>

\* room codes the callers of the rest handler use
RestRoomIds == {"r1"}

RestNext ==
    \/ \E r \in RestRoomIds, n \in {"alice", "bob"} : handleJoinRoom(r, n)
    \/ \E r \in RestRoomIds, u \in IdPool : handleLeaveRoom(r, u)
    \/ \E r \in RestRoomIds, u \in IdPool, ty \in EventTypes, p \in Payloads :
          handleVideoEvent(r, u, ty, p)

----------------------------------------------------------------------------
(* VideoChunker: the host slices the file it holds into chunks.            *)
(*                                                                         *)
(* A file is its size and its content; the content is a pattern repeated   *)
(* over the whole length.  An ArrayBuffer read from the file is kept as    *)
(* the byte range it holds.                                                *)

Min(a, b) == IF a <= b THEN a ELSE b
Max(a, b) == IF a >= b THEN a ELSE b

\* a division that drops the remainder
Floor(a, b) == a \div b

\* Math.ceil(a / b)
Ceil(a, b) == IF a % b = 0 THEN a \div b ELSE (a \div b) + 1

File(size, pattern) == [size |-> size, pattern |-> pattern]
\* the byte at offset i of the file
Content(file, i) == file.pattern[(i % Len(file.pattern)) + 1]

Patterns == {<<7>>, <<1, 2, 3>>}
FileSizes ==
    {n \in {k * 32 * 1024 + d : k \in 0..MaxBlocks, d \in {-1, 0, 1}} : n >= 0}
        \cup {10000000}
Files == {File(n, IF n = 0 THEN <<>> ELSE p) : n \in FileSizes, p \in Patterns}

qualityLevels ==
    << [name |-> "low", chunkSize |-> 32 * 1024],
       [name |-> "medium", chunkSize |-> 64 * 1024],
       [name |-> "high", chunkSize |-> 128 * 1024] >>

\* this.qualityLevels.find(q => q.name === quality) || this.qualityLevels[1]
QualityLevel(quality) ==
    IF \E i \in DOMAIN qualityLevels : qualityLevels[i].name = quality
    THEN qualityLevels[CHOOSE i \in DOMAIN qualityLevels :
                          /\ qualityLevels[i].name = quality
                          /\ \A j \in 1..(i - 1) : qualityLevels[j].name # quality]
    ELSE qualityLevels[2]

\* a read that loses the last byte of the range
readFileChunkShort(file, start, end) ==
    LET a == Min(Max(start, 0), file.size)
        b == Max(a, Min(end, file.size) - 1)
    IN [start |-> a, end |-> b]

\* file.slice(start, end) read into an ArrayBuffer: both ends are clamped
\* to the file
readFileChunk(file, start, end) ==
    LET a == Min(Max(start, 0), file.size)
        b == Max(a, Min(end, file.size))
    IN [start |-> a, end |-> b]

\* ArrayBuffer.byteLength
byteLength(data) == data.end - data.start

\* SHA-256 of the bytes, as a hex string: equal for equal contents, and
\* different from the empty string of a checksum not yet computed
calculateChecksum(file, data) ==
    IF byteLength(data) = 0 THEN <<0, 0>>
    ELSE <<byteLength(data), data.start % Len(file.pattern)>> \o file.pattern

\* new VideoChunker(file, chunkSize)
NewChunker(file, chunkSize) ==
    [file |-> file, chunkSize |-> chunkSize, chunks |-> <<>>,
     totalChunks |-> 0, checksum |-> <<>>]

\* no chunker has been constructed
NoChunker == NewChunker(File(0, <<>>), 0)

\* the body of the loop of createChunks
Chunk(file, chunkSize, totalChunks, i) ==
    LET start == i * chunkSize
        end == Min(start + chunkSize, file.size)
        chunkData == readFileChunk(file, start, end)
    IN [index |-> i,
        data |-> chunkData,
        isLast |-> (i = totalChunks - 1),
        size |-> byteLength(chunkData),
        checksum |-> calculateChecksum(file, chunkData)]

\* what createChunks makes of chunker c
createChunksOf(c, quality) ==
    LET chunkSize == QualityLevel(quality).chunkSize
        totalChunks == Ceil(c.file.size, chunkSize)
        chunks == [k \in 1..totalChunks |->
                     Chunk(c.file, chunkSize, totalChunks, k - 1)]
    IN [c EXCEPT
          !.chunkSize = chunkSize,
          !.totalChunks = totalChunks,
          !.chunks = chunks,
          !.checksum = calculateChecksum(c.file,
                          readFileChunk(c.file, 0, c.file.size))]

createChunks(quality) ==
    /\ chunker # NoChunker
    /\ chunker' = createChunksOf(chunker, quality)
    /\ UNCHANGED <<serverVars, managerVars>>

\* the tiers a caller may name, one of them unknown
Qualities == {"low", "medium", "high", "ultra"}

\* the constructor's chunk size: its default, or the caller's
ConstructorChunkSizes == {64 * 1024, 1000}

----------------------------------------------------------------------------
(* P2PStreamingManager: the state of a manager.                            *)
(*                                                                         *)
(* A manager holds its streamingState, its chunkBuffer and the maps of its *)
(* WebRTCDataChannelManager.  The RTCPeerConnection objects it created     *)
(* are kept beside the maps: a connection lives until it is closed,        *)
(* whether a map still names it or not.                                    *)

\* the participants the host may stream to; the manager peerMgr is p1's
Participants == {"p1", "p2", "p3"}
Self == "p1"
\* the participants whose own managers are not followed
Others == Participants \ {Self}
\* the key under which a participant files its connection to the host
HostId == "host"

\* setupDefaultHandlers / setupWebRTCHandlers: both message types are logged
DefaultHandlers == [t \in {"video-chunk", "chunk-request"} |-> "log"]

\* new P2PStreamingManager()
NewManager ==
    [isStreaming |-> FALSE,
     isHost |-> FALSE,
     currentQuality |-> "medium",
     totalChunks |-> 0,
     receivedChunks |-> 0,
     bufferedChunks |-> 0,
     chunks |-> EmptyMap,
     currentSize |-> 0,
     missingChunks |-> {},
     peerConnections |-> EmptyMap,
     dataChannels |-> EmptyMap,
     bandwidthStats |-> {},
     connectionStateHandlers |-> {},
     messageHandlers |-> DefaultHandlers,
     connections |-> EmptyMap,
     verifying |-> <<>>]

\* an event a step emits, or a message it hands to a data channel
Ev(ev, by, to, index) == [ev |-> ev, by |-> by, to |-> to, index |-> index]
\* the call or callback a step handles
Call(op, by, to, index) == [op |-> op, by |-> by, to |-> to, index |-> index]

NoTrace ==
    [call |-> Call("", "", "", Undefined),
     step |-> <<>>,
     complete |-> 0,
     failures |-> EmptyMap,
     deliveries |-> 0,
     requests |-> 0,
     hostings |-> 0]

\* no manager has been used yet
\* initialState of the app store, as far as the room goes: currentUser is
\* null, roomUsers is empty
initialState == [currentUser |-> NoId, roomUsers |-> <<>>, isHost |-> FALSE]

\* the clients before anything was asked of them
NoManagers ==
    /\ hostMgr = NewManager
    /\ peerMgr = NewManager
    /\ channel = <<>>
    /\ trace = NoTrace
    /\ store = initialState

InitChunker ==
    /\ \E f \in Files, c \in ConstructorChunkSizes : chunker = NewChunker(f, c)
    /\ NoManagers
    /\ wire = NoWire
    /\ deployment = "client"
    /\ status = EmptyMap
    /\ ioRooms = EmptyMap
    /\ rooms = EmptyMap
    /\ userSockets = EmptyMap
    /\ now = 0
    /\ req = NoReq
    /\ out = <<>>
    /\ restRooms = EmptyMap
    /\ userSessions = EmptyMap

NextChunker == \E q \in Qualities : createChunks(q)

SpecChunker == InitChunker /\ [][NextChunker]_vars

----------------------------------------------------------------------------
(* WebRTCDataChannelManager: peer connections, data channels, handlers.    *)

\* this.config of the streaming manager
config ==
    [chunkSize |-> 64 * 1024,
     maxChunksInFlight |-> 10,
     retryAttempts |-> 3,
     timeoutMs |-> 5000]

\* new RTCPeerConnection(config), with the data channel the caller gives it:
\* readyState is "connecting", "open" or "closed", or "none" while the
\* answering side has not been handed the channel
NewConnection(participantId, readyState) ==
    [participantId |-> participantId,
     closed |-> FALSE,
     state |-> "new",
     readyState |-> readyState]

\* the connection objects of manager m that have not been closed
Open(m) == {id \in DOMAIN m.connections : ~m.connections[id].closed}

createPeerConnection(m, participantId, id) ==
    [m EXCEPT
       !.connections = MapSet(@, id, NewConnection(participantId, "connecting")),
       !.peerConnections = MapSet(@, participantId, id),
       !.dataChannels = MapSet(@, participantId, id)]

createAnsweringPeerConnection(m, participantId, id) ==
    [m EXCEPT
       !.connections = MapSet(@, id, NewConnection(participantId, "none")),
       !.peerConnections = MapSet(@, participantId, id)]

\* dataChannel.close() and peerConnection.close() on the objects the maps
\* name for the participant, then the four deletes
closeConnection(m, participantId) ==
    LET channels == IF participantId \in DOMAIN m.dataChannels
                    THEN {m.dataChannels[participantId]} ELSE {}
        pcs == IF participantId \in DOMAIN m.peerConnections
               THEN {m.peerConnections[participantId]} ELSE {}
    IN [m EXCEPT
          !.connections =
              [id \in DOMAIN @ |->
                 [@[id] EXCEPT
                    !.closed = @ \/ id \in pcs,
                    !.readyState = IF id \in channels \cup pcs /\ @ # "none"
                                   THEN "closed" ELSE @]],
          !.dataChannels = MapDelete(@, participantId),
          !.peerConnections = MapDelete(@, participantId),
          !.bandwidthStats = @ \ {participantId},
          !.connectionStateHandlers = @ \ {participantId}]

RECURSIVE closeConnections(_, _)
closeConnections(m, ids) ==
    IF ids = {} THEN m
    ELSE LET id == CHOOSE x \in ids : TRUE
         IN closeConnections(closeConnection(m, id), ids \ {id})

\* every key of peerConnections is closed
closeAllConnections(m) == closeConnections(m, DOMAIN m.peerConnections)

\* sendMessage sends only on a data channel that is there and open
sendMessage(m, participantId) ==
    /\ participantId \in DOMAIN m.dataChannels
    /\ m.connections[m.dataChannels[participantId]].readyState = "open"

\* the VIDEO_CHUNK message of sendVideoChunk: the payload travels as the
\* array of its bytes, here the bytes' place in the file's pattern
VideoChunkMessage(file, chunk) ==
    [type |-> "video-chunk",
     chunk |-> [index |-> chunk.index,
                data |-> [pattern |-> file.pattern,
                          start |-> chunk.data.start,
                          end |-> chunk.data.end],
                isLast |-> chunk.isLast,
                size |-> chunk.size,
                checksum |-> chunk.checksum],
     totalChunks |-> 0]

\* a STREAM_START message
StreamStartMessage(totalChunks) ==
    [type |-> "stream-start",
     chunk |-> VideoChunkMessage(File(0, <<>>),
                   Chunk(File(0, <<>>), 0, 0, 0)).chunk,
     totalChunks |-> totalChunks]

\* the chunks of a sequence that sendVideoChunk gets onto the data channel
\* of the participant, in order
Sent(m, participantId, chunks) ==
    IF sendMessage(m, participantId) THEN chunks ELSE <<>>

\* the channel to p1 once the host has sent the chunks
Enqueue(participantId, chunks) ==
    LET sent == Sent(hostMgr, participantId, chunks)
    IN IF participantId = Self
       THEN channel \o [k \in DOMAIN sent |->
                          [conn |-> hostMgr.dataChannels[participantId],
                           msg |-> VideoChunkMessage(chunker.file, sent[k])]]
       ELSE channel

SendEvents(participantId, chunks) ==
    LET sent == Sent(hostMgr, participantId, chunks)
    IN [k \in DOMAIN sent |-> Ev("video-chunk", "host", participantId, sent[k].index)]

\* VideoChunker.getChunk: null is the empty sequence
getChunk(index) ==
    IF index < 0 \/ index >= Len(chunker.chunks) THEN <<>>
    ELSE <<chunker.chunks[index + 1]>>

\* VideoChunker.getChunkRange
getChunkRange(startIndex, endIndex) ==
    LET last == Min(endIndex, Len(chunker.chunks) - 1)
    IN [k \in 1..(last - startIndex + 1) |-> chunker.chunks[startIndex + k]]

----------------------------------------------------------------------------
(* P2PStreamingManager on the host.                                        *)

\* the step handled call c and emitted the events es
Traced2(c, es) == [trace EXCEPT !.call = c, !.step = es]

\* the files a host streams: one, eleven and twelve 64 KiB chunks
HostedFiles ==
    {File(n, <<7>>) : n \in {64 * 1024, 11 * 64 * 1024, 11 * 64 * 1024 + 1}}

startHosting(file) ==
    /\ deployment = "client"
    /\ trace.hostings < MaxHostings
    /\ LET c == createChunksOf(NewChunker(file, config.chunkSize),
                               hostMgr.currentQuality)
       IN /\ chunker' = c
          /\ hostMgr' = [hostMgr EXCEPT
                           !.isHost = TRUE,
                           !.isStreaming = TRUE,
                           !.totalChunks = Len(c.chunks)]
          /\ trace' = [Traced2(Call("startHosting", "host", "", Undefined),
                               <<Ev("streaming-started", "host", "", Len(c.chunks))>>)
                         EXCEPT !.hostings = @ + 1]
    /\ UNCHANGED <<serverVars, peerMgr, channel>>

updateQuality(quality) ==
    /\ deployment = "client"
    /\ hostMgr' = [hostMgr EXCEPT !.currentQuality = quality]
    /\ trace' = Traced2(Call("updateQuality", "host", quality, Undefined),
                        <<Ev("quality-changed", "host", quality, Undefined)>>)
    /\ UNCHANGED <<serverVars, chunker, peerMgr, channel>>

\* the next RTCPeerConnection object of the host
NewConnectionId == Cardinality(DOMAIN hostMgr.connections) + 1

\* throws before anything is done when the host has no chunker
streamToParticipant(participantId) ==
    /\ deployment = "client"
    /\ chunker # NoChunker
    /\ NewConnectionId <= MaxConnections
    /\ hostMgr' = [createPeerConnection(hostMgr, participantId, NewConnectionId)
                     EXCEPT !.connectionStateHandlers = @ \cup {participantId}]
    /\ trace' = Traced2(Call("streamToParticipant", "host", participantId, NewConnectionId),
                        <<Ev("webrtc-offer", "host", participantId, NewConnectionId)>>)
    /\ UNCHANGED <<serverVars, chunker, peerMgr, channel>>

\* startStreamingToParticipant sends the first chunks ...
InitialChunks ==
    IF chunker = NoChunker THEN <<>>
    ELSE getChunkRange(0, Min(9, hostMgr.totalChunks - 1))

\* ... and then binds the CHUNK_REQUEST handler to the participant
startStreamingToParticipant(m, participantId) ==
    IF chunker = NoChunker THEN m
    ELSE [m EXCEPT !.messageHandlers = MapSet(@, "chunk-request", participantId)]

stopStreamingToParticipant(m, participantId) == closeConnection(m, participantId)

\* the states a connection moves through
ConnectionStates == {"connected", "disconnected", "failed"}
MayBecome(from, to) ==
    \/ from = "new" /\ to \in {"connected", "failed"}
    \/ from = "connected" /\ to \in {"disconnected", "failed"}

\* peerConnection.onconnectionstatechange of the host's connection object id:
\* the handler registered for the participant, if any, gets the state
onconnectionstatechange(id, state) ==
    /\ id \in Open(hostMgr)
    /\ MayBecome(hostMgr.connections[id].state, state)
    /\ LET participantId == hostMgr.connections[id].participantId
           c == Call("connection-" \o state, "host", participantId, id)
           moved == [hostMgr EXCEPT !.connections[id].state = state]
       IN /\ (participantId = Self /\ state = "connected") => id \in Open(peerMgr)
          /\ trace' = Traced2(c,
                IF participantId \in hostMgr.connectionStateHandlers /\ state = "connected"
                THEN SendEvents(participantId, InitialChunks) ELSE <<>>)
          /\ IF participantId \notin hostMgr.connectionStateHandlers
             THEN /\ hostMgr' = moved
                  /\ UNCHANGED channel
             ELSE IF state = "connected"
             THEN /\ hostMgr' = startStreamingToParticipant(moved, participantId)
                  /\ channel' = Enqueue(participantId, InitialChunks)
             ELSE /\ hostMgr' = stopStreamingToParticipant(moved, participantId)
                  /\ UNCHANGED channel
    /\ UNCHANGED <<serverVars, chunker, peerMgr>>

\* dataChannel.onopen of the host's connection object id
onopen(id) ==
    /\ id \in Open(hostMgr)
    /\ hostMgr.connections[id].readyState = "connecting"
    /\ hostMgr.connections[id].participantId = Self => id \in Open(peerMgr)
    /\ hostMgr' = [hostMgr EXCEPT !.connections[id].readyState = "open"]
    /\ trace' = Traced2(Call("channel-open", "host",
                             hostMgr.connections[id].participantId, id), <<>>)
    /\ UNCHANGED <<serverVars, chunker, peerMgr, channel>>

\* peerConnection.oniceconnectionstatechange: updateBandwidthStats files the
\* participant's stats
oniceconnectionstatechange(id) ==
    /\ id \in Open(hostMgr)
    /\ hostMgr' = [hostMgr EXCEPT
                     !.bandwidthStats = @ \cup {hostMgr.connections[id].participantId}]
    /\ trace' = Traced2(Call("ice-state", "host",
                             hostMgr.connections[id].participantId, id), <<>>)
    /\ UNCHANGED <<serverVars, chunker, peerMgr, channel>>

\* handleChunkRequest: the chunk, if getChunk finds it
RequestedChunks(chunkIndex) ==
    IF chunker = NoChunker THEN <<>> ELSE getChunk(chunkIndex)

\* what the CHUNK_REQUEST handler in place sends for a request from a
\* participant: the handler bound by startStreamingToParticipant answers
\* its own participant only
Answer(fromParticipantId, chunkIndex) ==
    IF hostMgr.messageHandlers["chunk-request"] = fromParticipantId
    THEN RequestedChunks(chunkIndex) ELSE <<>>

\* the indices a participant may ask for
RequestIndices == {-1, 0, 10, 11}

\* dataChannel.onmessage on the host: a CHUNK_REQUEST arrives on the data
\* channel of connection object id
handleChunkRequest(id, chunkIndex) ==
    /\ id \in Open(hostMgr)
    /\ hostMgr.connections[id].readyState = "open"
    /\ trace.requests < MaxRequests
    /\ LET fromParticipantId == hostMgr.connections[id].participantId
       IN /\ channel' = Enqueue(fromParticipantId, Answer(fromParticipantId, chunkIndex))
          /\ trace' = [Traced2(Call("chunk-request", "host", fromParticipantId, chunkIndex),
                        SendEvents(fromParticipantId, Answer(fromParticipantId, chunkIndex)))
                        EXCEPT !.requests = @ + 1]
    /\ UNCHANGED <<serverVars, chunker, hostMgr, peerMgr>>

\* stopStreaming of a manager: the connections are closed, the buffer is
\* cleared
stopStreaming(m) ==
    [closeAllConnections(m) EXCEPT
       !.isStreaming = FALSE,
       !.chunks = EmptyMap,
       !.missingChunks = {},
       !.currentSize = 0]

\* stopStreaming on the host: the chunker is destroyed and dropped
hostStopStreaming ==
    /\ deployment = "client"
    /\ hostMgr' = stopStreaming(hostMgr)
    /\ chunker' = NoChunker
    /\ trace' = Traced2(Call("stopStreaming", "host", "", Undefined),
                        <<Ev("streaming-stopped", "host", "", Undefined)>>)
    /\ UNCHANGED <<serverVars, peerMgr, channel>>

----------------------------------------------------------------------------
(* P2PStreamingManager on the participant.                                 *)

\* setupParticipantHandlers
ParticipantHandlers(handlers) ==
    MapSet(MapSet(handlers, "video-chunk", "handleReceivedChunk"),
           "stream-start", "stream-metadata")

\* joinStream; a session's totals start here
joinStream ==
    /\ deployment = "client"
    /\ peerMgr' = [peerMgr EXCEPT
                     !.isHost = FALSE,
                     !.isStreaming = TRUE,
                     !.messageHandlers = ParticipantHandlers(@)]
    /\ trace' = [Traced2(Call("joinStream", "peer", "", Undefined),
                         <<Ev("join-stream-request", "peer", HostId, Undefined)>>)
                   EXCEPT !.complete = 0, !.failures = EmptyMap]
    /\ UNCHANGED <<serverVars, chunker, hostMgr, channel>>

\* handleWebRTCOffer: the participant answers the offer of the host's
\* connection object id
handleWebRTCOffer(id) ==
    /\ id \in Open(hostMgr)
    /\ hostMgr.connections[id].participantId = Self
    /\ id \notin DOMAIN peerMgr.connections
    /\ peerMgr' = createAnsweringPeerConnection(peerMgr, HostId, id)
    /\ trace' = Traced2(Call("handleWebRTCOffer", "peer", HostId, id),
                        <<Ev("webrtc-answer", "peer", HostId, id)>>)
    /\ UNCHANGED <<serverVars, chunker, hostMgr, channel>>

\* peerConnection.ondatachannel of the answering connection
ondatachannel(id) ==
    /\ id \in Open(peerMgr)
    /\ id \in Open(hostMgr)
    /\ peerMgr.connections[id].readyState = "none"
    /\ peerMgr' = [peerMgr EXCEPT
                     !.connections[id].readyState = "open",
                     !.dataChannels = MapSet(@, HostId, id)]
    /\ trace' = Traced2(Call("datachannel", "peer", HostId, id), <<>>)
    /\ UNCHANGED <<serverVars, chunker, hostMgr, channel>>

\* handleMessage: the handler registered for the message's type runs.
\* handleReceivedChunk suspends on the checksum of the payload: the chunk
\* waits in `verifying` until the digest is there.
handleMessage(m, message) ==
    LET handler == IF message.type \in DOMAIN m.messageHandlers
                   THEN m.messageHandlers[message.type] ELSE "none"
    IN IF handler = "handleReceivedChunk"
       THEN [m EXCEPT !.verifying = Append(@, message.chunk)]
       ELSE IF handler = "stream-metadata"
       THEN [m EXCEPT !.totalChunks = message.totalChunks]
       ELSE m

\* what handleMessage emits
MessageEvents(m, message) ==
    IF message.type \in DOMAIN m.messageHandlers
       /\ m.messageHandlers[message.type] = "stream-metadata"
    THEN <<Ev("stream-metadata", "peer", "", message.totalChunks)>>
    ELSE <<>>

\* the participant's data channels that can deliver
Receiving == {id \in Open(peerMgr) : peerMgr.connections[id].readyState = "open"}

\* the place in the channel of the oldest message on connection id
Oldest(id) ==
    CHOOSE k \in DOMAIN channel :
        /\ channel[k].conn = id
        /\ \A j \in 1..(k - 1) : channel[j].conn # id

Remove(q, k) == [j \in 1..(Len(q) - 1) |-> IF j < k THEN q[j] ELSE q[j + 1]]

\* dataChannel.onmessage on the participant: the oldest message in flight
\* on connection id arrives
onmessage(id) ==
    /\ id \in Receiving
    /\ \E k \in DOMAIN channel : channel[k].conn = id
    /\ LET message == channel[Oldest(id)].msg
       IN /\ peerMgr' = handleMessage(peerMgr, message)
          /\ trace' = Traced2(Call(message.type, "peer", HostId, message.chunk.index),
                              MessageEvents(peerMgr, message))
    /\ channel' = Remove(channel, Oldest(id))
    /\ UNCHANGED <<serverVars, chunker, hostMgr>>

\* the streaming manager's calculateChecksum: the same digest as the
\* chunker's, of the bytes that arrived
managerChecksum(data) == calculateChecksum([pattern |-> data.pattern], data)

\* requestChunk only logs: the messages it sends
requestChunk(chunkIndex, participantId) == <<>>

\* the buffer and the counters once a verified chunk is stored
Store(m, chunk) ==
    [m EXCEPT
       !.chunks = MapSet(@, chunk.index, chunk),
       !.currentSize = @ + 1,
       !.receivedChunks = @ + 1,
       !.bufferedChunks = Cardinality(DOMAIN m.chunks \cup {chunk.index}),
       !.missingChunks = @ \ {chunk.index}]

\* handleReceivedChunk from the point where the digest of the k-th waiting
\* chunk is there
handleReceivedChunk(k) ==
    /\ k \in DOMAIN peerMgr.verifying
    /\ LET chunk == peerMgr.verifying[k]
           resumed == [peerMgr EXCEPT !.verifying = Remove(@, k)]
           stored == Store(resumed, chunk)
           complete == stored.receivedChunks >= stored.totalChunks
           failed == IF chunk.index \in DOMAIN trace.failures
                     THEN trace.failures[chunk.index] ELSE 0
       IN IF managerChecksum(chunk.data) # chunk.checksum
          THEN /\ peerMgr' = resumed
               /\ trace' = [Traced2(Call("checksum-mismatch", "peer", HostId, chunk.index),
                                    requestChunk(chunk.index, HostId))
                              EXCEPT !.failures = MapSet(@, chunk.index, failed + 1)]
          ELSE /\ peerMgr' = stored
               /\ trace' = [Traced2(Call("chunk-verified", "peer", HostId, chunk.index),
                                <<Ev("chunk-received", "peer", "", chunk.index)>>
                                  \o IF complete
                                     THEN <<Ev("stream-complete", "peer", "", stored.totalChunks)>>
                                     ELSE <<>>)
                              EXCEPT !.complete = IF complete THEN @ + 1 ELSE @]
    /\ UNCHANGED <<serverVars, chunker, hostMgr, channel>>

\* stopStreaming on the participant; what was in flight on a connection it
\* closed is lost
peerStopStreaming ==
    /\ deployment = "client"
    /\ peerMgr' = stopStreaming(peerMgr)
    /\ channel' = SelectSeq(channel, LAMBDA x : x.conn \in Open(stopStreaming(peerMgr)))
    /\ trace' = Traced2(Call("stopStreaming", "peer", "", Undefined),
                        <<Ev("streaming-stopped", "peer", "", Undefined)>>)
    /\ UNCHANGED <<serverVars, chunker, hostMgr>>

\* a payload damaged on the way
Corrupted(message) == [message EXCEPT !.chunk.data.pattern = <<9>>]

\* what a remote peer may hand the participant: the chunks of the source in
\* any order and any number of times, intact or damaged, and the chunk count
PeerMessages ==
    LET intact == {VideoChunkMessage(chunker.file, chunker.chunks[k]) :
                     k \in DOMAIN chunker.chunks}
    IN intact \cup {Corrupted(message) : message \in intact}
              \cup {StreamStartMessage(Len(chunker.chunks))}

\* dataChannel.onmessage on the participant, for a message of a remote peer
receive(message) ==
    /\ Receiving # {}
    /\ trace.deliveries < MaxDeliveries
    /\ peerMgr' = handleMessage(peerMgr, message)
    /\ trace' = [Traced2(Call(message.type, "peer", HostId, message.chunk.index),
                         MessageEvents(peerMgr, message))
                   EXCEPT !.deliveries = @ + 1]
    /\ UNCHANGED <<serverVars, chunker, hostMgr, channel>>

----------------------------------------------------------------------------
(* Transfers *)

\* the coordination servers are not part of a behaviour of the clients
NoServer ==
    /\ wire = NoWire
    /\ deployment = "client"
    /\ status = EmptyMap
    /\ ioRooms = EmptyMap
    /\ rooms = EmptyMap
    /\ userSockets = EmptyMap
    /\ now = 0
    /\ req = NoReq
    /\ out = <<>>
    /\ restRooms = EmptyMap
    /\ userSessions = EmptyMap

InitTransfer ==
    /\ NoServer
    /\ chunker = NoChunker
    /\ NoManagers

\* what the browser reports of the host's connections
HostConnectionNext ==
    \/ \E id \in 1..MaxConnections, st \in ConnectionStates : onconnectionstatechange(id, st)
    \/ \E id \in 1..MaxConnections : onopen(id)

\* the participant answers the host's offers
AnswerNext ==
    \/ \E id \in 1..MaxConnections : handleWebRTCOffer(id)
    \/ \E id \in 1..MaxConnections : ondatachannel(id)

\* The host: it hosts files of one, eleven and twelve chunks, streams to
\* participants and is asked for chunks.
NextHost ==
    \/ \E f \in HostedFiles : startHosting(f)
    \/ \E q \in {"low", "high"} : updateQuality(q)
    \/ \E p \in Others : streamToParticipant(p)
    \/ HostConnectionNext
    \/ \E id \in 1..MaxConnections : oniceconnectionstatechange(id)
    \/ \E id \in 1..MaxConnections, i \in RequestIndices : handleChunkRequest(id, i)
    \/ hostStopStreaming

SpecHost == InitTransfer /\ [][NextHost]_vars

\* the host once it streams a sliced file to p1 over connection 1, whose
\* data channel is open
StreamingHost ==
    LET hosting == [NewManager EXCEPT
                      !.isHost = TRUE,
                      !.isStreaming = TRUE,
                      !.totalChunks = Len(chunker.chunks)]
        offered == [createPeerConnection(hosting, Self, 1)
                      EXCEPT !.connectionStateHandlers = {Self}]
    IN [offered EXCEPT !.connections[1].readyState = "open"]

\* the participant once it has joined the stream and answered connection 1
JoinedParticipant ==
    LET joined == [NewManager EXCEPT
                     !.isStreaming = TRUE,
                     !.messageHandlers = ParticipantHandlers(@)]
        answered == createAnsweringPeerConnection(joined, HostId, 1)
    IN [answered EXCEPT
          !.connections[1].readyState = "open",
          !.dataChannels = MapSet(@, HostId, 1)]

\* a session is set up and nothing has been sent yet
Established(files) ==
    /\ NoServer
    /\ \E f \in files :
          chunker = createChunksOf(NewChunker(f, config.chunkSize), "medium")
    /\ hostMgr = StreamingHost
    /\ peerMgr = JoinedParticipant
    /\ channel = <<>>
    /\ trace = [NoTrace EXCEPT !.hostings = 1]
    /\ store = initialState

\* files of two and of three 64 KiB chunks
ReceivedFiles == {File(n, <<1, 2, 3>>) : n \in {64 * 1024 + 1, 2 * 64 * 1024 + 1}}

\* The participant of a session, handed the chunks of the source by a
\* remote peer in any order, repeated or damaged.
InitReceive == Established(ReceivedFiles)

NextReceive ==
    \/ \E message \in PeerMessages : receive(message)
    \/ \E k \in DOMAIN peerMgr.verifying : handleReceivedChunk(k)

SpecReceive == InitReceive /\ [][NextReceive]_vars

----------------------------------------------------------------------------
(* The client on connection 1: SocketProvider hands the server's           *)
(* notifications to the app store.                                         *)

\* the connection the client is on
ClientSocket == 1

\* a user as the notifications carry it and the list holds it
StoreUser(id, isHost) == [id |-> id, isHost |-> isHost]

\* handleRoomJoined: setCurrentUser, setRoomUsers(data.users), setIsHost
handleRoomJoined(st, data, users) ==
    [currentUser |-> data.userId,
     roomUsers |-> [i \in DOMAIN users |-> StoreUser(users[i].id, users[i].isHost)],
     isHost |-> data.isHost]

\* roomUsers: [...state.roomUsers, user]
addUser(st, user) == [st EXCEPT !.roomUsers = Append(st.roomUsers, user)]

\* roomUsers: state.roomUsers.filter((user) => user.id !== userId)
removeUser(st, userId) ==
    [st EXCEPT !.roomUsers = SelectSeq(st.roomUsers, LAMBDA user : user.id # userId)]

\* every user's flag is recomputed, and the client's own
updateHost(st, newHostId) ==
    [st EXCEPT
       !.roomUsers = [i \in DOMAIN st.roomUsers |->
                        StoreUser(st.roomUsers[i].id, st.roomUsers[i].id = newHostId)],
       !.isHost = (st.currentUser = newHostId)]

\* the handler SocketProvider registered for the notification
handleNotification(st, data, registry) ==
    IF data.ev = "room-joined"
    THEN handleRoomJoined(st, data, registry[data.text].users)
    ELSE IF data.ev \in {"user-joined", "user-reconnected"}
    THEN addUser(st, StoreUser(data.userId, data.isHost))
    ELSE IF data.ev = "user-left"
    THEN removeUser(st, data.userId)
    ELSE IF data.ev = "host-changed"
    THEN updateHost(st, data.userId)
    ELSE st

\* the notifications of a step reach the client in the order of the emits
RECURSIVE Deliver(_, _, _)
Deliver(st, msgs, registry) ==
    IF msgs = <<>> THEN st
    ELSE Deliver(IF Head(msgs).to = ClientSocket
                 THEN handleNotification(st, Head(msgs), registry) ELSE st,
                 Tail(msgs), registry)

\* join-room on the server, and what it emits reaches the client
JoinRoomNotified(s, roomId, userName) ==
    /\ deployment = "server"
    /\ Len(store.roomUsers) < MaxListed
    /\ JoinBody(s, roomId, userName)
    /\ store' = Deliver(store, out', rooms')

\* disconnect on the server, and what it emits reaches the client
DisconnectNotified(s) ==
    /\ deployment = "server"
    /\ DisconnectBody(s)
    /\ store' = Deliver(store, out', rooms')

\* The server and the client on connection 1.
NextClient ==
    \/ \E s \in Sockets, r \in RoomIds : JoinRoomNotified(s, r, NameOf(s))
    \/ \E s \in Sockets : DisconnectNotified(s)

\* The participant over several sessions: it receives, stops, joins again
\* and answers the host's next offer.
NextParticipant ==
    \/ \E message \in PeerMessages : receive(message)
    \/ \E k \in DOMAIN peerMgr.verifying : handleReceivedChunk(k)
    \/ peerStopStreaming
    \/ joinStream
    \/ streamToParticipant(Self)
    \/ AnswerNext

SpecParticipant == InitReceive /\ [][NextParticipant]_vars

\* An established session whose connection comes up and stays up: the host
\* sends, the channel delivers every message sent, intact and in order, and
\* the participant verifies what arrives. Nothing that is enabled is put off
\* for ever.
InitLive == Established(HostedFiles)

NextLive ==
    \/ \E id \in 1..MaxConnections : onconnectionstatechange(id, "connected")
    \/ \E id \in 1..MaxConnections : onmessage(id)
    \/ \E k \in DOMAIN peerMgr.verifying : handleReceivedChunk(k)

SpecLive == InitLive /\ [][NextLive]_vars /\ WF_vars(NextLive)

----------------------------------------------------------------------------

InitCommon ==
    /\ rooms = EmptyMap
    /\ userSockets = EmptyMap
    /\ now = 0
    /\ req = NoReq
    /\ out = <<>>
    /\ restRooms = EmptyMap
    /\ userSessions = EmptyMap

InitUntraced ==
    /\ InitCommon
    /\ wire = NoWire
    /\ chunker = NoChunker
    /\ NoManagers

Init ==
    /\ InitUntraced
    /\ deployment = "server"
    /\ status = [s \in Sockets |-> "open"]
    /\ ioRooms = [s \in Sockets |-> {}]

Next == MembershipNext \/ EventsNext

Spec == Init /\ [][Next]_vars

\* Membership changes as the client on connection 1 sees them.
SpecClient == Init /\ [][NextClient]_vars

\* Membership changes interleaved with signaling and streaming notices.
NextSignal == MembershipNext \/ SignalNext

SpecSignal == Init /\ [][NextSignal]_vars

\* Join requests with and without their required fields, among all the
\* other requests, on one connection fewer.
JoinAny ==
    \E s \in Sockets :
        \E r \in RoomIds \cup {""}, n \in {NameOf(s), ""} : JoinRoom(s, r, n)

NextCreate ==
    \/ JoinAny
    \/ \E s \in Sockets : Disconnect(s)
    \/ EventsNext
    \/ SignalNext

\* Control events on traced transports, among joins and disconnects.
InitWire ==
    /\ InitCommon
    /\ chunker = NoChunker
    /\ NoManagers
    /\ wire = [sent |-> 0, recv |-> [s \in Sockets |-> <<>>]]
    /\ deployment = "server"
    /\ status = [s \in Sockets |-> "open"]
    /\ ioRooms = [s \in Sockets |-> {}]

NextWire ==
    \/ MembershipNext
    \/ \E s \in Sockets, r \in RoomIds : VideoEvent(s, r, "seek")

SpecWire == InitWire /\ [][NextWire]_vars

\* Every kind of request the server handles after a join.
NextRequests == MembershipNext \/ EventsNext \/ SignalNext

SpecRequests == Init /\ [][NextRequests]_vars

\* Membership changes interleaved with the passage of time and the sweep.
NextClock == MembershipNext \/ ClockNext

\* One connection fewer, so that the clock can be explored in full.
InitClock ==
    /\ InitUntraced
    /\ deployment = "server"
    /\ status = [s \in Sockets \ {MaxSockets} |-> "open"]
    /\ ioRooms = [s \in Sockets \ {MaxSockets} |-> {}]

SpecClock == InitClock /\ [][NextClock]_vars

SpecCreate == InitClock /\ [][NextCreate]_vars

\* Joins and leaves interleaved with millisecond ticks (no sweep).
NextOrder == MembershipNext \/ Tick(1)

SpecOrder == Init /\ [][NextOrder]_vars

\* A room one short of its capacity: nine idle members sit in r1.
IdleUsers ==
    [i \in 1..(MaxRoomUsers - 1) |->
        [id |-> MaxSockets + i, socketId |-> MaxSockets + i, name |-> "idle",
         isHost |-> (i = 1), joinedAt |-> 0]]

InitFull ==
    /\ deployment = "server"
    /\ status = [s \in Sockets \cup IdleSockets |-> "open"]
    /\ ioRooms = [s \in Sockets \cup IdleSockets |-> IF s \in IdleSockets THEN {"r1"} ELSE {}]
    /\ rooms = [r \in {"r1"} |->
                 [id |-> "r1", host |-> MaxSockets + 1, users |-> IdleUsers,
                  lastActivity |-> 0]]
    /\ userSockets = [s \in IdleSockets |-> s]
    /\ now = 0
    /\ req = NoReq
    /\ out = <<>>
    /\ restRooms = EmptyMap
    /\ userSessions = EmptyMap
    /\ wire = NoWire
    /\ chunker = NoChunker
    /\ NoManagers

SpecFull == InitFull /\ [][Next]_vars

\* The host-only handler modules.
InitHostOnly ==
    /\ InitUntraced
    /\ deployment \in {"vercel", "rest"}
    /\ status = [s \in Sockets |-> "open"]
    /\ ioRooms = [s \in Sockets |-> {}]

NextHostOnly == VercelNext \/ RestNext

SpecHostOnly == InitHostOnly /\ [][NextHostOnly]_vars

----------------------------------------------------------------------------
(* Vocabulary of the properties *)

\* the client a connection belongs to
SameClient(s1, s2) == NameOf(s1) = NameOf(s2)

Hosts(room) == {i \in DOMAIN room.users : room.users[i].isHost}

\* messages of the last step with this event name, addressed to this socket
Delivered(ev, to) == {i \in DOMAIN out : out[i].ev = ev /\ out[i].to = to}

\* the last step was a request of socket s for room r that passed validation
Accepted(op) ==
    /\ req.op = op
    /\ req.room \in DOMAIN rooms
    /\ req.sock \in DOMAIN userSockets
    /\ UsersHas(rooms[req.room], userSockets[req.sock])

----------------------------------------------------------------------------
(* C1: in the socket coordination server, under any interleaving of        *)
(* join-room, disconnect and sweep, every room of the registry that has at *)
(* least one member has exactly one member whose host flag is set.         *)
C1_ExactlyOneHost ==
    \A r \in DOMAIN rooms :
        Len(rooms[r].users) >= 1 => Cardinality(Hosts(rooms[r])) = 1

\* a host transfer has just happened in a room that lived through a sweep
C1_Witness ==
    /\ req.op = "disconnect"
    /\ now > InactiveThreshold
    /\ \E i \in DOMAIN out : out[i].ev = "host-changed"
    /\ \E r \in DOMAIN rooms : Len(rooms[r].users) >= 1

----------------------------------------------------------------------------
(* C2: whenever the connection of the member flagged host of a room        *)
(* disconnects while the room has more than one member, exactly one of the *)
(* remaining members has the host flag afterwards and a host-changed       *)
(* notification naming that member is delivered to every remaining member.*)
C2_HostTransfer ==
    [][\A s \in DOMAIN status : \A r \in DOMAIN rooms :
         ( /\ status[s] = "open" /\ status'[s] = "closed"
           /\ Len(rooms[r].users) > 1
           /\ \E i \in DOMAIN rooms[r].users :
                 rooms[r].users[i].isHost /\ rooms[r].users[i].socketId = s )
         => /\ r \in DOMAIN rooms'
            /\ LET old == {rooms[r].users[i].id : i \in Hosts(rooms[r])}
                   remaining == {u \in Range(rooms'[r].users) : u.id \notin old}
                   flagged == {u \in remaining : u.isHost}
               IN /\ Cardinality(flagged) = 1
                  /\ \A u \in remaining : \A h \in flagged :
                        \E k \in DOMAIN out' :
                            /\ out'[k].ev = "host-changed"
                            /\ out'[k].to = u.socketId
                            /\ out'[k].userId = h.id
    ]_vars

(* C3: once every connection that joined a room has disconnected, the room *)
(* lookup returns not-found for its code, and the registry never contains  *)
(* a room with zero members.                                               *)
C3_RoomGoneWithLastMember ==
    /\ \A r \in RoomIds : InIoRoom(r) = {} => RoomLookup(r).code = 404
    /\ \A r \in DOMAIN rooms : Len(rooms[r].users) >= 1

(* C4: when a client that is a member of a room joins that room again (as  *)
(* it does after a transport reconnection), the membership count does not  *)
(* increase, no second member is created for it, and its host flag is kept.*)
C4_RejoinIdempotent ==
    [][\A s \in DOMAIN status : \A r \in DOMAIN rooms :
         ( /\ req'.op = "join-room" /\ req'.sock = s /\ req'.room = r
           /\ \E u \in Range(rooms[r].users) : SameClient(u.socketId, s) )
         => /\ r \in DOMAIN rooms'
            /\ Len(rooms'[r].users) = Len(rooms[r].users)
            /\ \A u \in Range(rooms[r].users) :
                  SameClient(u.socketId, s) =>
                     \E v \in Range(rooms'[r].users) :
                         v.id = u.id /\ v.isHost = u.isHost
    ]_vars

(* C5: after any sequence of joins and disconnects the member flagged host *)
(* is the earliest-joined member still present: it is the first in join    *)
(* order, no later joiner is flagged, and nobody present joined before it. *)
C5_HostIsEarliestJoined ==
    \A r \in DOMAIN rooms :
        LET us == rooms[r].users
        IN Len(us) >= 1 =>
             /\ Hosts(rooms[r]) = {1}
             /\ \A i \in DOMAIN us : us[1].joinedAt <= us[i].joinedAt

\* a host left a room of three and the later of the two others joined later
C5_Witness ==
    /\ req.op = "disconnect"
    /\ \E i \in DOMAIN out : out[i].ev = "host-changed"
    /\ \E r \in DOMAIN rooms :
          /\ Len(rooms[r].users) = 2
          /\ rooms[r].users[1].joinedAt < rooms[r].users[2].joinedAt

(* C6: a room never has more than 10 members; a join-room by a connection  *)
(* that is not yet a member of a room with 10 members fails with 'Room is  *)
(* full' sent to that connection alone and leaves the registry unchanged.  *)
C6_RoomCapacity ==
    /\ \A r \in DOMAIN rooms : Len(rooms[r].users) <= 10
    /\ [][ /\ \A r \in DOMAIN rooms' : Len(rooms'[r].users) <= 10
           /\ \A s \in DOMAIN status : \A r \in DOMAIN rooms :
                ( /\ req'.op = "join-room" /\ req'.sock = s /\ req'.room = r
                  /\ Len(rooms[r].users) = 10
                  /\ ~IsReconnection(s, r) )
                => /\ out' = <<ErrorMsg(s, "Room is full")>>
                   /\ rooms' = rooms
                   /\ userSockets' = userSockets
       ]_vars

\* an eleventh join has just been refused
C6_Witness ==
    /\ req.op = "join-room"
    /\ out = <<ErrorMsg(req.sock, "Room is full")>>
    /\ Len(rooms[req.room].users) = 10

(* C7: an accepted video-event is delivered, stamped with the sender's     *)
(* member id, to every other current member of the room exactly once and   *)
(* never to the sending connection.                                        *)
C7_VideoEventFanOut ==
    Accepted("video-event") =>
        LET s == req.sock
            me == userSockets[s]
            us == rooms[req.room].users
        IN /\ \A i \in DOMAIN us :
                 us[i].id # me =>
                    Cardinality({k \in Delivered("video-event-received", us[i].socketId) :
                                    out[k].userId = me}) = 1
           /\ Delivered("video-event-received", s) = {}

(* C8: the socket coordination server broadcasts video-event-received only *)
(* when the submitting connection's member is the room's current host.     *)
C8_OnlyHostControls ==
    (req.op = "video-event" /\ \E k \in DOMAIN out : out[k].ev = "video-event-received")
        => UsersGet(rooms[req.room], userSockets[req.sock]).isHost

(* C9: in the host-only handlers a control event of a member that is not   *)
(* flagged host is rejected with 'Only host can control video', nothing is *)
(* broadcast and the room (its video state included) is unchanged; the     *)
(* control events of the member flagged host, a promoted one included, are *)
(* accepted.                                                               *)
C9_HostOnlyControl ==
    [][ /\ (deployment = "vercel" /\ req'.op = "video-event") =>
             LET s == req'.sock
                 r == req'.room
             IN (r \in DOMAIN rooms /\ s \in DOMAIN userSockets
                   /\ UsersHas(rooms[r], userSockets[s])) =>
                  IF UsersGet(rooms[r], userSockets[s]).isHost
                  THEN /\ \A k \in DOMAIN out' :
                             /\ out'[k].ev = "video-event-received"
                             /\ out'[k].userId = userSockets[s]
                       /\ {out'[k].to : k \in DOMAIN out'} = InIoRoom(r) \ {s}
                  ELSE /\ out' = <<ErrorMsg(s, "Only host can control video")>>
                       /\ rooms' = rooms
        /\ (deployment = "rest" /\ req'.op = "video-event") =>
             LET u == req'.sock
                 r == req'.room
             IN (r \in DOMAIN restRooms /\ UsersHas(restRooms[r], u)) =>
                  IF UsersGet(restRooms[r], u).isHost
                  THEN /\ Len(out') = 1
                       /\ out'[1].code = 200
                  ELSE /\ out' = <<Response(403, NoId, FALSE, "Only host can control video")>>
                       /\ restRooms' = restRooms
    ]_vars

\* a member promoted after the first host left has its control event broadcast
C9_Witness ==
    /\ deployment = "vercel"
    /\ req.op = "video-event"
    /\ \E k \in DOMAIN out : out[k].ev = "video-event-received"
    /\ rooms[req.room].host # userSockets[req.sock]

(* C10: a chat message of a member of a room is delivered to all current   *)
(* members of the room, the sender included; a chat message of a           *)
(* connection that is no member of the named room is delivered to nobody   *)
(* and produces one error, to the sender only.                             *)
C10_ChatFanOut ==
    req.op = "chat-message" =>
        IF Accepted("chat-message")
        THEN \A u \in Range(rooms[req.room].users) :
                 Delivered("chat-message-received", u.socketId) # {}
        ELSE /\ Len(out) = 1
             /\ out[1].ev = "error"
             /\ out[1].to = req.sock

----------------------------------------------------------------------------
(* C11: a join-stream-request submitted by a member of a room is delivered *)
(* to the connection of the room's current host and to no other            *)
(* connection, with the requester's connection id and name attached, also  *)
(* after the host role has been transferred by a disconnect.               *)
C11_JoinStreamToHost ==
    ( /\ req.op = "join-stream-request"
      /\ req.room \in DOMAIN rooms
      /\ req.sock \in DOMAIN userSockets
      /\ UsersHas(rooms[req.room], userSockets[req.sock])
      /\ ~UsersGet(rooms[req.room], userSockets[req.sock]).isHost )
    => \A i \in Hosts(rooms[req.room]) :
          LET h == rooms[req.room].users[i]
              me == UsersGet(rooms[req.room], userSockets[req.sock])
          IN status[h.socketId] = "open" =>
               /\ {out[k].to : k \in DOMAIN out} = {h.socketId}
               /\ \A k \in DOMAIN out :
                     /\ out[k].ev = "join-stream-request"
                     /\ out[k].from = req.sock
                     /\ out[k].userName = me.name

(* C12: in every reachable state of the socket coordination server the     *)
(* host id recorded on a non-empty room is the id of the member of that    *)
(* room whose host flag is set.                                            *)
C12_HostIdRecorded ==
    \A r \in DOMAIN rooms :
        Len(rooms[r].users) >= 1 =>
            /\ Hosts(rooms[r]) # {}
            /\ \A i \in Hosts(rooms[r]) : rooms[r].users[i].id = rooms[r].host

(* C13: a signaling message (webrtc-offer, webrtc-answer, ice-candidate)   *)
(* is forwarded only if its sender is a current member of the named room,  *)
(* and only to the named target, which is a member of that same room.      *)
C13_SignalingAuthorized ==
    req.op \in SignalKinds =>
        \A k \in DOMAIN out :
            out[k].ev = req.op =>
                /\ req.room \in DOMAIN rooms
                /\ req.sock \in DOMAIN userSockets
                /\ UsersHas(rooms[req.room], userSockets[req.sock])
                /\ SocketIdOf(out[k].to) = req.target
                /\ out[k].to \in DOMAIN userSockets
                /\ UsersHas(rooms[req.room], userSockets[out[k].to])

(* C14: every request that fails validation (unknown room code, connection *)
(* with no member, member not in the named room) produces exactly one      *)
(* error message, delivered to the requesting connection only, and leaves  *)
(* the registry (rooms, members, host flags, last-activity) unchanged.     *)
C14_ValidationErrors ==
    [][ ( /\ req'.op \in {"video-event", "chat-message", "join-stream-request",
                          "streaming-started", "streaming-stopped"} \cup SignalKinds
          /\ \/ req'.room \notin DOMAIN rooms
             \/ req'.sock \notin DOMAIN userSockets
             \/ ~UsersHas(rooms[req'.room], userSockets[req'.sock]) )
        => /\ Len(out') = 1
           /\ out'[1].ev = "error"
           /\ out'[1].to = req'.sock
           /\ rooms' = rooms
           /\ userSockets' = userSockets
      ]_vars

(* C15: a join-room request whose room code or display name is missing or  *)
(* empty is rejected with an error to the requester and creates neither a  *)
(* room nor a member; a room appears in the registry only through a        *)
(* successful join to an unknown code, never through a control, chat,      *)
(* signaling or streaming message naming an unknown code.                  *)
C15_RoomsOnlyByJoin ==
    [][ /\ (req'.op = "join-room" /\ (req'.room = "" \/ req'.userName = ""))
             => /\ Len(out') = 1
                /\ out'[1].ev = "error"
                /\ out'[1].to = req'.sock
                /\ rooms' = rooms
                /\ userSockets' = userSockets
        /\ \A r \in DOMAIN rooms' \ DOMAIN rooms :
              /\ req'.op = "join-room"
              /\ req'.room = r
              /\ r # ""
              /\ req'.userName # ""
              /\ out'[1].ev = "room-joined"
              /\ Len(rooms'[r].users) = 1
      ]_vars

\* a join without a display name to an unknown room code has been rejected
C15_Witness ==
    /\ req.op = "join-room"
    /\ req.userName = ""
    /\ req.room # ""
    /\ req.room \notin DOMAIN rooms
    /\ Len(out) = 1
    /\ out[1].ev = "error"
    /\ \E r \in DOMAIN rooms : Len(rooms[r].users) >= 1

(* C16: the periodic sweep removes exactly the rooms whose last-activity   *)
(* timestamp is more than 30 minutes in the past, whether or not they      *)
(* still have members, and leaves every room with more recent activity in  *)
(* the registry with its members and host unchanged.                       *)
C16_SweepExact ==
    [][ req'.op = "sweep" =>
          /\ DOMAIN rooms' \subseteq DOMAIN rooms
          /\ \A r \in DOMAIN rooms :
                IF now - rooms[r].lastActivity > 30 * 60 * 1000
                THEN r \notin DOMAIN rooms'
                ELSE r \in DOMAIN rooms' /\ rooms'[r] = rooms[r]
      ]_vars

\* a sweep has removed a room that still had a member, next to a room that
\* was joined a moment ago and stays
C16_Witness ==
    /\ req.op = "sweep"
    /\ \E s \in DOMAIN userSockets :
          /\ status[s] = "open"
          /\ \A r \in DOMAIN rooms : ~UsersHas(rooms[r], userSockets[s])
    /\ \E r \in DOMAIN rooms :
          /\ Len(rooms[r].users) >= 1
          /\ rooms[r].lastActivity > InactiveThreshold

(* C17: every operation that changes the membership of a room that         *)
(* continues to exist (new join, reconnection rebind, a member leaving,    *)
(* host transfer) sets the room's last-activity timestamp to the time of   *)
(* the operation; last-activity never decreases and is never older than    *)
(* the room's most recent membership change.                               *)
C17_LastActivity ==
    /\ \A r \in DOMAIN rooms :
          /\ rooms[r].lastActivity <= now
          /\ \A i \in DOMAIN rooms[r].users :
                rooms[r].users[i].joinedAt <= rooms[r].lastActivity
    /\ [][ /\ \A r \in DOMAIN rooms \cap DOMAIN rooms' :
                /\ rooms'[r].lastActivity >= rooms[r].lastActivity
                /\ ( \/ rooms'[r].users # rooms[r].users
                     \/ /\ req'.op = "join-room"
                        /\ req'.room = r
                        /\ out'[1].ev = "room-joined" )
                      => rooms'[r].lastActivity = now'
           /\ \A r \in DOMAIN rooms' \ DOMAIN rooms :
                rooms'[r].lastActivity = now'
       ]_vars

\* the host has left a room some time after it was created, and the room
\* lives on under a promoted host
C17_Witness ==
    /\ req.op = "disconnect"
    /\ \E k \in DOMAIN out : out[k].ev = "host-changed"
    /\ \E r \in DOMAIN rooms :
          /\ Len(rooms[r].users) >= 1
          /\ rooms[r].lastActivity = now
          /\ rooms[r].users[1].joinedAt < now

----------------------------------------------------------------------------
(* Vocabulary of the slicing properties *)

\* createChunks has run on the chunker
Sliced == chunker.checksum # <<>>

\* The chunks are ceil(len/chunkSize) many, indexed 0..n-1; each payload is
\* as long as its size field says; and the payloads, put together in index
\* order, are the bytes of the source: the first payload starts at offset
\* 0 of the source, each next one starts where the sizes of the ones before
\* it end, and together they are as long as the source.
ContiguousPartition ==
    LET f == chunker.file
        cs == chunker.chunkSize
        cks == chunker.chunks
        n == Len(cks)
    IN /\ n * cs >= f.size
       /\ n > 0 => (n - 1) * cs < f.size
       /\ \A k \in 1..n :
             /\ cks[k].index = k - 1
             /\ cks[k].size = cks[k].data.end - cks[k].data.start
             /\ cks[k].size >= 1
             /\ cks[k].data.start =
                   IF k = 1 THEN 0 ELSE cks[k - 1].data.start + cks[k - 1].size
       /\ f.size = IF n = 0 THEN 0 ELSE cks[n].data.start + cks[n].size

FlaggedLast == {k \in DOMAIN chunker.chunks : chunker.chunks[k].isLast}

(* C19: for every source byte sequence (of any length, including zero) and *)
(* every chunk size, createChunks yields ceil(len/chunkSize) chunks with   *)
(* indices 0..n-1 whose payloads concatenated in index order equal the     *)
(* source, each chunk's size field equals its payload length, and exactly  *)
(* one chunk is flagged last.                                              *)
C19_SliceRoundTrip ==
    Sliced => /\ ContiguousPartition
              /\ Cardinality(FlaggedLast) = 1

\* C19 as it holds: a source of zero bytes yields no chunk at all, so none
\* is flagged last; every other source has exactly one chunk flagged last,
\* the one with the highest index.
C19_SliceRoundTripNonEmpty ==
    Sliced => /\ ContiguousPartition
              /\ FlaggedLast = IF chunker.file.size = 0 THEN {}
                               ELSE {Len(chunker.chunks)}

\* a source of several chunks whose last chunk is a remainder
C19_Witness ==
    /\ Sliced
    /\ Len(chunker.chunks) >= 3
    /\ chunker.chunks[Len(chunker.chunks)].size < chunker.chunkSize
    /\ chunker.chunks[1].size = chunker.chunkSize

(* C20: slicing a 10 000 000-byte source at 65 536-byte chunks yields 153   *)
(* chunks, and the last chunk is 8 192 bytes long and flagged last.        *)
C20_Scenario ==
    (Sliced /\ chunker.file.size = 10000000 /\ chunker.chunkSize = 65536)
        => /\ Len(chunker.chunks) = 153
           /\ chunker.chunks[153].size = 8192
           /\ chunker.chunks[153].isLast

\* C20 as it holds: the last of the 153 chunks is 38 528 bytes long
\* (10 000 000 - 152 * 65 536).
C20_ScenarioRemainder ==
    (Sliced /\ chunker.file.size = 10000000 /\ chunker.chunkSize = 65536)
        => /\ Len(chunker.chunks) = 153
           /\ chunker.totalChunks = 153
           /\ chunker.chunks[153].size = 38528
           /\ chunker.chunks[153].isLast

\* the 10 000 000-byte source has been sliced at the medium tier
C20_Witness ==
    /\ Sliced
    /\ chunker.file.size = 10000000
    /\ chunker.chunkSize = 65536
    /\ Len(chunker.chunks) > 0

----------------------------------------------------------------------------
(* The transfer of chunks *)

\* the places in the events of trace t where event ev was emitted
Emitted(t, ev) == {k \in DOMAIN t.step : t.step[k].ev = ev}

\* every index of the stream is in the buffer of manager m
IndexComplete(m) == \A i \in 0..(m.totalChunks - 1) : i \in DOMAIN m.chunks

(* C21: chunk reception is idempotent and order-independent: re-receiving  *)
(* an index that was already received and verified changes neither the     *)
(* received count nor the buffer, so in any arrival order with any         *)
(* duplicates the received count equals the number of distinct verified    *)
(* indices.                                                                *)
C21_IdempotentReception ==
    [][/\ peerMgr'.receivedChunks = Cardinality(DOMAIN peerMgr'.chunks)
       /\ (/\ trace'.call.op = "chunk-verified"
           /\ trace'.call.index \in DOMAIN peerMgr.chunks)
            => /\ peerMgr'.receivedChunks = peerMgr.receivedChunks
               /\ peerMgr'.chunks = peerMgr.chunks]_vars

(* C22: the consumer emits stream-complete only in a state where every     *)
(* index in [0, totalChunks) has been received and verified and is in its  *)
(* buffer, however the deliveries are reordered and repeated.              *)
C22_CompleteOnlyWhenAllReceived ==
    Emitted(trace, "stream-complete") # {} => IndexComplete(peerMgr)

(* C23: over a session the consumer emits exactly one stream-complete: a   *)
(* verified chunk brings the notification exactly when it makes the        *)
(* buffer index-complete, never before and never again afterwards.         *)
C23_ExactlyOneComplete ==
    [][(trace'.call.op = "chunk-verified" /\ peerMgr.totalChunks > 0)
         => (Emitted(trace', "stream-complete") # {}
               <=> (IndexComplete(peerMgr') /\ ~IndexComplete(peerMgr)))]_vars

(* C24: a chunk whose payload does not match its declared checksum is      *)
(* never stored in the buffer nor counted as received, and its arrival     *)
(* causes a chunk request for the same index to be sent to the peer that   *)
(* delivered it.                                                           *)
C24_MismatchReRequested ==
    [][trace'.call.op = "checksum-mismatch"
         => /\ peerMgr'.chunks = peerMgr.chunks
            /\ peerMgr'.receivedChunks = peerMgr.receivedChunks
            /\ \E k \in Emitted(trace', "chunk-request") :
                  /\ trace'.step[k].index = trace'.call.index
                  /\ trace'.step[k].to = trace'.call.to]_vars

(* C25: retransmission is bounded: at the checksum failure that brings the *)
(* failures of one index to retryAttempts (3) the consumer surfaces a      *)
(* recoverable transfer error, from then on it sends no request for that   *)
(* index, and the session stays open for the chunks of other indices.      *)
C25_BoundedRetry ==
    [][(/\ trace'.call.op = "checksum-mismatch"
        /\ trace'.failures[trace'.call.index] >= config.retryAttempts)
         => /\ trace'.failures[trace'.call.index] = config.retryAttempts
               => Emitted(trace', "streaming-error") # {}
            /\ Emitted(trace', "chunk-request") = {}
            /\ peerMgr'.isStreaming
            /\ peerMgr'.messageHandlers = peerMgr.messageHandlers
            /\ Receiving' # {}]_vars

\* the participant's connection in the host's maps is connected and its data
\* channel is open
Reachable(m, participantId) ==
    /\ participantId \in DOMAIN m.peerConnections
    /\ m.connections[m.peerConnections[participantId]].state = "connected"
    /\ sendMessage(m, participantId)

\* the index is one of the chunker's
InRange(index) == 0 <= index /\ index < Len(chunker.chunks)

(* C26: getChunk(i) returns the chunk with index i for every i in          *)
(* [0, totalChunks) and null for every other i, and a chunk request for i  *)
(* from a participant the host is connected to sends that participant      *)
(* exactly the chunk with index i, or nothing when i is out of range.      *)
C26_RandomAccess ==
    [][/\ chunker # NoChunker
          => \A i \in RequestIndices :
                IF InRange(i)
                THEN Len(getChunk(i)) = 1 /\ getChunk(i)[1].index = i
                ELSE getChunk(i) = <<>>
       /\ (/\ trace'.call.op = "chunk-request"
           /\ chunker # NoChunker
           /\ Reachable(hostMgr, trace'.call.to))
            => trace'.step =
                 IF InRange(trace'.call.index)
                 THEN <<Ev("video-chunk", "host", trace'.call.to, trace'.call.index)>>
                 ELSE <<>>]_vars

\* getChunk alone
C26_GetChunk ==
    chunker # NoChunker
      => \A i \in RequestIndices :
            IF InRange(i)
            THEN Len(getChunk(i)) = 1 /\ getChunk(i)[1].index = i
            ELSE getChunk(i) = <<>>

(* C27: after updateQuality(q) on a hosting manager the chunks served and  *)
(* the total chunk count are those of tier q's chunk size:                 *)
(* totalChunks = ceil(fileSize / chunkSize(q)).                            *)
C27_QualityReslices ==
    [][(trace'.call.op = "updateQuality" /\ chunker # NoChunker)
         => LET size == QualityLevel(trace'.call.to).chunkSize
                total == Ceil(chunker.file.size, size)
            IN /\ chunker'.chunkSize = size
               /\ Len(chunker'.chunks) = total
               /\ hostMgr'.totalChunks = total]_vars

\* the manager that made the last call
Caller(t) == IF t.call.by = "host" THEN hostMgr ELSE peerMgr

\* the connection objects of manager m that are still alive, and its data
\* channels that are
Alive(m) ==
    Open(m) \cup {id \in DOMAIN m.connections :
                    m.connections[id].readyState \in {"connecting", "open"}}

(* C28: a torn down session releases everything. After stopStreaming the   *)
(* chunk buffer and the missing-chunk set are empty, the producer's chunk  *)
(* list is empty and no peer connection or data channel remains; after a   *)
(* peer is lost on the host its connection, data channel, stats and state  *)
(* handler are removed.                                                    *)
C28_TeardownReleases ==
    [][/\ trace'.call.op = "stopStreaming"
          => /\ Caller(trace)'.chunks = EmptyMap
             /\ Caller(trace)'.missingChunks = {}
             /\ Caller(trace)'.currentSize = 0
             /\ trace'.call.by = "host" => chunker' = NoChunker
             /\ Caller(trace)'.peerConnections = EmptyMap
             /\ Caller(trace)'.dataChannels = EmptyMap
             /\ Caller(trace)'.bandwidthStats = {}
             /\ Caller(trace)'.connectionStateHandlers = {}
             /\ Alive(Caller(trace))' = {}
       /\ (/\ trace'.call.op \in {"connection-disconnected", "connection-failed"}
           /\ trace'.call.to \in hostMgr.connectionStateHandlers)
            => /\ trace'.call.to \notin DOMAIN hostMgr'.peerConnections
               /\ trace'.call.to \notin DOMAIN hostMgr'.dataChannels
               /\ trace'.call.to \notin hostMgr'.bandwidthStats
               /\ trace'.call.to \notin hostMgr'.connectionStateHandlers]_vars

\* VIDEO_CHUNK messages for the indices first..last, sent to the participant
Burst(participantId, first, last) ==
    [k \in 1..(last - first + 1) |->
       Ev("video-chunk", "host", participantId, first + k - 1)]

\* a chunk past the first ten goes out only as the answer to a request for it
OnRequestOnly(t) ==
    \A k \in DOMAIN t.step :
        (t.step[k].ev = "video-chunk" /\ t.step[k].index >= config.maxChunksInFlight)
          => /\ t.call.op = "chunk-request"
             /\ t.call.index = t.step[k].index
             /\ t.call.to = t.step[k].to

(* C30: when the peer connection to a participant becomes connected the    *)
(* host sends that participant the chunks 0..min(9, totalChunks-1) in      *)
(* ascending order and no others; a chunk with index >= 10 is sent only in *)
(* response to a chunk request for that index.                             *)
C30_InitialBurst ==
    [][/\ (/\ trace'.call.op = "connection-connected"
           /\ trace'.call.to \in hostMgr.connectionStateHandlers
           /\ chunker # NoChunker)
            => trace'.step =
                 Burst(trace'.call.to, 0, Min(9, hostMgr.totalChunks - 1))
       /\ OnRequestOnly(trace')]_vars

\* the second half alone
C30_OnRequestOnly == OnRequestOnly(trace)

\* the participant holds every chunk of the host's source
HoldsAll == \A i \in 0..(Len(chunker.chunks) - 1) : i \in DOMAIN peerMgr.chunks

(* C29: for a source of N chunks, N > 10 included, a participant that has  *)
(* joined and whose channel to the host stays connected and delivers every *)
(* message sent, uncorrupted, eventually holds all N chunks and reaches    *)
(* Complete.                                                               *)
C29_TransferCompletes == <>(HoldsAll /\ trace.complete >= 1)

\* the participants whose peer connection is connected
Connected(m) ==
    {p \in DOMAIN m.peerConnections :
       m.connections[m.peerConnections[p]].state = "connected"}

(* C31: with two or more participants connected to the host, a chunk       *)
(* request from any connected participant is answered by sending it the    *)
(* requested chunk; streaming to a later participant does not stop an      *)
(* earlier participant's requests being served.                            *)
C31_EveryParticipantServed ==
    [][(/\ trace'.call.op = "chunk-request"
        /\ chunker # NoChunker
        /\ InRange(trace'.call.index)
        /\ Cardinality(Connected(hostMgr)) >= 2
        /\ Reachable(hostMgr, trace'.call.to))
         => \E k \in Emitted(trace', "video-chunk") :
               /\ trace'.step[k].to = trace'.call.to
               /\ trace'.step[k].index = trace'.call.index]_vars

(* C32: whenever the participant accepts a chunk or emits stream-complete  *)
(* its totalChunks is the number of chunks the host produced for the       *)
(* source: completion is never evaluated against the initial 0.            *)
C32_TotalChunksKnown ==
    (trace.call.op = "chunk-verified" \/ Emitted(trace, "stream-complete") # {})
      => /\ peerMgr.totalChunks = Len(chunker.chunks)
         /\ peerMgr.totalChunks = hostMgr.totalChunks

(* C33: in every state of the consumer the counters agree with the buffer: *)
(* receivedChunks = bufferedChunks = currentSize = the number of distinct  *)
(* indices in the buffer, and receivedChunks <= totalChunks once           *)
(* totalChunks is known.                                                   *)
C33_CountersAgree ==
    /\ peerMgr.receivedChunks = Cardinality(DOMAIN peerMgr.chunks)
    /\ peerMgr.bufferedChunks = Cardinality(DOMAIN peerMgr.chunks)
    /\ peerMgr.currentSize = Cardinality(DOMAIN peerMgr.chunks)
    /\ peerMgr.totalChunks > 0 => peerMgr.receivedChunks <= peerMgr.totalChunks

\* bufferedChunks alone
C33_BufferedChunks == peerMgr.bufferedChunks = Cardinality(DOMAIN peerMgr.chunks)

(* C34: a new session starts from a clean receive state: after             *)
(* stopStreaming followed by joinStream on the same manager receivedChunks *)
(* and totalChunks are 0 and the buffer is empty.                          *)
C34_CleanStart ==
    [][(/\ trace.call.op = "stopStreaming"
        /\ trace.call.by = "peer"
        /\ trace'.call.op = "joinStream")
         => /\ peerMgr'.receivedChunks = 0
            /\ peerMgr'.totalChunks = 0
            /\ peerMgr'.chunks = EmptyMap
            /\ peerMgr'.currentSize = 0]_vars

\* the buffer alone
C34_BufferEmptied ==
    [][(/\ trace.call.op = "stopStreaming"
        /\ trace.call.by = "peer"
        /\ trace'.call.op = "joinStream")
         => /\ peerMgr'.chunks = EmptyMap
            /\ peerMgr'.currentSize = 0]_vars

(* C35: chunk handling does not race with teardown: a chunk that was still *)
(* being verified when stopStreaming ran is not stored afterwards; from    *)
(* the return of stopStreaming to the next joinStream the buffer stays     *)
(* empty and receivedChunks unchanged.                                     *)
C35_NoStoreAfterStop ==
    [][~peerMgr.isStreaming
         => /\ peerMgr'.chunks = peerMgr.chunks
            /\ peerMgr'.receivedChunks = peerMgr.receivedChunks]_vars

\* the rooms of the registry that hold the member
RoomsOf(userId) == {r \in DOMAIN rooms : UsersHas(rooms[r], userId)}

(* C36: every entry of userSockets maps a live connection to a member that *)
(* is present in exactly one room of the registry; entries go when the     *)
(* connection disconnects or the sweep deletes the member's room.          *)
C36_IndexMatchesRegistry ==
    \A s \in DOMAIN userSockets :
        /\ status[s] = "open"
        /\ Cardinality(RoomsOf(userSockets[s])) = 1

\* no entry names a member that is in two rooms
C36_AtMostOneRoom ==
    \A s \in DOMAIN userSockets : Cardinality(RoomsOf(userSockets[s])) <= 1

\* the members some room holds for connection s, each with its room
MembersOf(s) ==
    UNION {{<<r, rooms[r].users[i].id>> :
              i \in {j \in DOMAIN rooms[r].users : rooms[r].users[j].socketId = s}} :
           r \in DOMAIN rooms}

(* C37: a connection is bound to at most one member in at most one room:   *)
(* whatever join-room requests it made, no room retains a member created   *)
(* for the connection once it has joined another room or disconnected.     *)
C37_OneMemberPerConnection ==
    \A s \in DOMAIN status :
        /\ Cardinality(MembersOf(s)) <= 1
        /\ \A m \in MembersOf(s) :
              /\ status[s] = "open"
              /\ s \in DOMAIN userSockets
              /\ userSockets[s] = m[2]

\* the notifications the server broadcasts to a room
RoomBroadcasts ==
    {"video-event-received", "chat-message-received", "user-joined",
     "user-reconnected", "user-left", "host-changed"}

\* the room a broadcast of the last step was made to
BroadcastRoom(m) ==
    IF m.ev \in {"video-event-received", "chat-message-received"}
    THEN req.room ELSE m.text

\* connection s is bound to a current member of room r
BoundTo(s, r) ==
    /\ r \in DOMAIN rooms
    /\ s \in DOMAIN userSockets
    /\ UsersHas(rooms[r], userSockets[s])

(* C38: room broadcasts reach members only: a video-event-received,        *)
(* chat-message-received, user-joined, user-left or host-changed           *)
(* notification for a room is delivered only to connections bound to a     *)
(* current member of that room at the time of the broadcast.               *)
C38_BroadcastsReachMembersOnly ==
    \A i \in DOMAIN out :
        out[i].ev \in RoomBroadcasts \ {"user-reconnected"}
          => BoundTo(out[i].to, BroadcastRoom(out[i]))

\* the streaming notices a client submits
StreamingNotices == {"streaming-started", "streaming-stopped"}

(* C39: a streaming-started or streaming-stopped notice is broadcast to a  *)
(* room only when the submitting connection is bound to a current member   *)
(* of that room; a notice from a non-member is rejected with an error to   *)
(* the sender and reaches no member.                                       *)
C39_NoticesFromMembersOnly ==
    (req.op \in StreamingNotices /\ ~BoundTo(req.sock, req.room))
      => /\ Len(out) = 1
         /\ out[1].ev = "error"
         /\ out[1].to = req.sock

\* streaming-started alone
C39_StartedFromMembersOnly ==
    (req.op = "streaming-started" /\ ~BoundTo(req.sock, req.room))
      => /\ Len(out) = 1
         /\ out[1].ev = "error"
         /\ out[1].to = req.sock

\* the entries of the client's list that are flagged host
FlaggedHost(st) == {i \in DOMAIN st.roomUsers : st.roomUsers[i].isHost}

\* no member is in the client's list twice
NoDuplicates(st) ==
    \A i, j \in DOMAIN st.roomUsers :
        st.roomUsers[i].id = st.roomUsers[j].id => i = j

(* C40: the client's view of the room stays consistent with the server's   *)
(* notifications: roomUsers never holds two entries with the same member   *)
(* id, and after host-changed exactly the named member is flagged host in  *)
(* the list, the client's own isHost being true iff it is the named        *)
(* member.                                                                 *)
C40_ClientViewConsistent ==
    /\ NoDuplicates(store)
    /\ \A k \in DOMAIN out :
          (out[k].ev = "host-changed" /\ out[k].to = ClientSocket)
            => /\ Cardinality(FlaggedHost(store)) = 1
               /\ \A i \in FlaggedHost(store) : store.roomUsers[i].id = out[k].userId
               /\ store.isHost <=> (store.currentUser = out[k].userId)


============================================================================
